---- MODULE Spec2Model ----
(***************************************************************************)
(* A model of the simulation core of ecs_testing:                          *)
(*   - the uniform-grid spatial index (src/src/spatial_hash.rs),           *)
(*   - the transform hierarchy propagation pass                            *)
(*     (src/src/systems.rs and the variant kept in src/src/main.rs),       *)
(*   - the collision resolution pass apply_velocity_system and the         *)
(*     visibility culling pass update_on_screen_system,                    *)
(*   - the schedules of the fixed-step loop of src/src/main.rs.            *)
(* Coordinates are f32 in the source; the model uses integers, on which    *)
(* floor(x / cell_size) is x \div cell_size and rem_euclid(360) is % 360.  *)
(* The rounding of f32 in the rotation arithmetic of GlobalTransform is    *)
(* modelled on its own, in units of 2^-17 degree (SpecRotation).           *)
(* The build modelled is the debug build (debug_assert! is compiled in).   *)
(***************************************************************************)
EXTENDS Integers, Sequences, FiniteSets, TLC

\* ------------------------------------------------------------------ bounds
\* coordinates of the rectangles handed to the index are in -1..MaxCoord
MaxCoord == 0
\* widths and heights are in -1..MaxSize (-1 makes the rectangle inverted)
MaxSize == 1
\* SpatialHash::new(cell_size): the cell size the index is constructed with
CellSize == 2

Entity == {"e1", "e2"}

Coords == (0 - 1)..MaxCoord
Sizes == (0 - 1)..MaxSize
Rectangle == [x : Coords, y : Coords, width : Sizes, height : Sizes]
NoRect == [x |-> 0, y |-> 0, width |-> 0 - 2, height |-> 0 - 2]

\* SpatialHash::new(10.0) of the unit test
TestCellSize == 10
\* cell_coords is called with x in -MaxTestCoord..MaxTestCoord
MaxTestCoord == 15

\* a propagation pass follows at most MaxEdits writes of local transforms
MaxEdits == 1

\* world positions handed to the resolver are in (0..MaxPos) x (0..MaxPosY)
MaxPos == 4
MaxPosY == 1

\* the entities of the transform hierarchy
HierEntity == {"r", "a", "b"}

VARIABLES
    cells,      \* SpatialHash.cells: (cx, cy) -> Vec<Entity>
    entities,   \* SpatialHash.entities: Entity -> Vec<(cx, cy)>
    last_rect,  \* history: the last rectangle insert/update accepted for an entity
    op,         \* history: the last call made on the index and how it ended
    found,      \* the HashSet returned by the last call, when it was a query
    child_of,          \* the ChildOf component: the parent, or NoParent
    children,          \* the Children component: the ordered children (<<>>: none)
    transform,         \* the Transform component (local), or Absent
    global_transform,  \* the GlobalTransform component (world), or Absent
    changed,    \* Changed<Transform>: written since the propagation system last ran
    edits,      \* local transforms written since the last pass
    pass,       \* history: the last propagation pass and what it wrote
    velocity,   \* the Velocity component, or NoVelocity
    collider,   \* the Collider component: [size, offset], or Absent
    sprite,     \* the Sprite component: [kind, size, radius, origin], or Absent
    on_screen,  \* the entities that carry the OnScreen tag
    resolved,   \* history: the last collision-resolution pass
    culled,     \* history: the last visibility-culling pass
    tick        \* the fixed-step loop: the schedule to run next, the ticks done,
                \* the entities that had no GlobalTransform when the tick began,
                \* the systems run in the tick (log), the Transforms written
                \* since update_spatial_hash_system ran (hash_changed), the
                \* entities whose GlobalTransform changed in the tick, and the
                \* record map of the index the culling query read (queried)

hvars == <<cells, entities, last_rect, op, found>>
tvars == <<child_of, children, transform, global_transform, changed, edits, pass>>
wvars == <<velocity, collider, sprite, on_screen, resolved, culled, tick>>
vars == <<cells, entities, last_rect, op, found,
          child_of, children, transform, global_transform, changed, edits, pass,
          velocity, collider, sprite, on_screen, resolved, culled, tick>>

\* ------------------------------------------------------------ helpers
Range(s) == {s[i] : i \in DOMAIN s}

\* mutant of retain: nothing is dropped from the bucket
retain_keeps_entity(bucket, entity) == bucket

\* mutant of retain: the first occurrence is removed as Vec::swap_remove does,
\* the last element taking its place
retain_swap_remove(bucket, entity) ==
    IF \A i \in DOMAIN bucket : bucket[i] # entity THEN bucket
    ELSE LET k == CHOOSE i \in DOMAIN bucket :
                      bucket[i] = entity /\ \A j \in 1..(i - 1) : bucket[j] # entity
             n == Len(bucket)
         IN  [i \in 1..(n - 1) |-> IF i = k THEN bucket[n] ELSE bucket[i]]

\* Vec::retain(|&e| e != entity)
RECURSIVE retain(_, _)
retain(bucket, entity) ==
    IF bucket = <<>> THEN <<>>
    ELSE IF Head(bucket) # entity
         THEN <<Head(bucket)>> \o retain(Tail(bucket), entity)
         ELSE retain(Tail(bucket), entity)

\* HashMap::insert / HashMap::remove on a map kept as a function
MapPut(m, k, v) == [j \in DOMAIN m \cup {k} |-> IF j = k THEN v ELSE m[j]]
MapRemove(m, k) == [j \in DOMAIN m \ {k} |-> m[j]]

\* --------------------------------------------------------- SpatialHash
SpatialHash_new == [cells |-> <<>>, entities |-> <<>>]

\* mutant of cell_coords_of: the quotient is rounded toward zero
cell_coords_of_truncating(cell_size, x, y) ==
    <<IF x < 0 THEN 0 - ((0 - x) \div cell_size) ELSE x \div cell_size,
      IF y < 0 THEN 0 - ((0 - y) \div cell_size) ELSE y \div cell_size>>

\* SpatialHash::cell_coords of an index constructed with cell_size:
\* ((x / cell_size).floor(), (y / cell_size).floor())
cell_coords_of(cell_size, x, y) == <<x \div cell_size, y \div cell_size>>

cell_coords(x, y) == cell_coords_of(CellSize, x, y)

\* debug_assert!(rect.width >= 0.0 && rect.height >= 0.0)
debug_assert_rect(rect) == rect.width >= 0 /\ rect.height >= 0

\* mutant of cell_coords_rect: the far edge's cell is left out (min..max)
cell_coords_rect_exclusive(rect) ==
    LET mn == cell_coords(rect.x, rect.y)
        mx == cell_coords(rect.x + rect.width, rect.y + rect.height)
        nx == mx[1] - mn[1]
        ny == mx[2] - mn[2]
    IN  IF nx <= 0 \/ ny <= 0 THEN <<>>
        ELSE [i \in 1..(nx * ny) |->
                <<mn[1] + ((i - 1) % nx), mn[2] + ((i - 1) \div nx)>>]

\* the Vec built by the two nested loops: cy outer, cx inner
cell_coords_rect(rect) ==
    LET mn == cell_coords(rect.x, rect.y)
        mx == cell_coords(rect.x + rect.width, rect.y + rect.height)
        nx == mx[1] - mn[1] + 1
        ny == mx[2] - mn[2] + 1
    IN  IF nx <= 0 \/ ny <= 0 THEN <<>>
        ELSE [i \in 1..(nx * ny) |->
                <<mn[1] + ((i - 1) % nx), mn[2] + ((i - 1) \div nx)>>]

\* for cell in &cells { self.cells.entry(*cell).or_default().push(entity) }
RECURSIVE push_all(_, _, _)
push_all(cm, cs, entity) ==
    IF cs = <<>> THEN cm
    ELSE LET c == Head(cs)
             bucket == IF c \in DOMAIN cm THEN cm[c] ELSE <<>>
         IN  push_all(MapPut(cm, c, Append(bucket, entity)), Tail(cs), entity)

\* mutant of insert: the recorded cell list of a known entity is kept
insert_keeps_record(h, entity, rect) ==
    LET cs == cell_coords_rect(rect)
    IN  [cells |-> push_all(h.cells, cs, entity),
         entities |-> IF entity \in DOMAIN h.entities THEN h.entities
                      ELSE MapPut(h.entities, entity, cs)]

insert(h, entity, rect) ==
    LET cs == cell_coords_rect(rect)
    IN  [cells |-> push_all(h.cells, cs, entity),
         entities |-> MapPut(h.entities, entity, cs)]

\* mutant of remove_all: a bucket that became empty stays in the map
RECURSIVE remove_all_keeps_empty(_, _, _)
remove_all_keeps_empty(cm, cs, entity) ==
    IF cs = <<>> THEN cm
    ELSE LET c == Head(cs)
         IN  IF c \in DOMAIN cm
             THEN remove_all_keeps_empty(MapPut(cm, c, retain(cm[c], entity)),
                                         Tail(cs), entity)
             ELSE remove_all_keeps_empty(cm, Tail(cs), entity)

\* mutant of remove_all: the whole bucket of every old cell is removed
RECURSIVE remove_all_drops_bucket(_, _, _)
remove_all_drops_bucket(cm, cs, entity) ==
    IF cs = <<>> THEN cm
    ELSE remove_all_drops_bucket(MapRemove(cm, Head(cs)), Tail(cs), entity)

\* for cell in old_cells { retain; remove the bucket when it is empty }
RECURSIVE remove_all(_, _, _)
remove_all(cm, cs, entity) ==
    IF cs = <<>> THEN cm
    ELSE LET c == Head(cs)
         IN  IF c \in DOMAIN cm
             THEN LET bucket == retain(cm[c], entity)
                  IN  IF bucket = <<>>
                      THEN remove_all(MapRemove(cm, c), Tail(cs), entity)
                      ELSE remove_all(MapPut(cm, c, bucket), Tail(cs), entity)
             ELSE remove_all(cm, Tail(cs), entity)

\* mutant of update: no early return when the cell list is unchanged
update_no_early_return(h, entity, new_rect) ==
    IF entity \in DOMAIN h.entities
    THEN insert([cells |-> remove_all(h.cells, h.entities[entity], entity),
                 entities |-> h.entities], entity, new_rect)
    ELSE insert(h, entity, new_rect)

\* mutant of update: the old cells are not looked at, update is a plain insert
update_as_insert(h, entity, new_rect) == insert(h, entity, new_rect)

\* mutant of update: an entity without a record is left out of the index
update_known_only(h, entity, new_rect) ==
    LET cs == cell_coords_rect(new_rect)
    IN  IF entity \in DOMAIN h.entities
        THEN IF h.entities[entity] = cs
             THEN h
             ELSE insert([cells |-> remove_all(h.cells, h.entities[entity], entity),
                          entities |-> h.entities], entity, new_rect)
        ELSE h

update(h, entity, new_rect) ==
    LET cs == cell_coords_rect(new_rect)
    IN  IF entity \in DOMAIN h.entities
        THEN IF h.entities[entity] = cs
             THEN h
             ELSE insert([cells |-> remove_all(h.cells, h.entities[entity], entity),
                          entities |-> h.entities], entity, new_rect)
        ELSE insert(h, entity, new_rect)

\* mutant of query_cells: the loops stop before the far edge's cell
query_cells_exclusive(query_rect) ==
    LET mn == cell_coords(query_rect.x, query_rect.y)
        mx == cell_coords(query_rect.x + query_rect.width,
                          query_rect.y + query_rect.height)
    IN  {<<cx, cy>> : cx \in mn[1]..(mx[1] - 1), cy \in mn[2]..(mx[2] - 1)}

\* the cells the two nested loops of query visit
query_cells(query_rect) ==
    LET mn == cell_coords(query_rect.x, query_rect.y)
        mx == cell_coords(query_rect.x + query_rect.width,
                          query_rect.y + query_rect.height)
    IN  {<<cx, cy>> : cx \in mn[1]..mx[1], cy \in mn[2]..mx[2]}

query(h, query_rect) ==
    UNION {Range(h.cells[c]) : c \in query_cells(query_rect) \cap DOMAIN h.cells}

\* How a call of query ends.  num_cells is an i32 product cast to usize: a
\* negative product wraps to a value near 2^64, and then either the
\* multiplication by avg_per_cell overflows (a panic in the debug build) or
\* HashSet::with_capacity is asked for more than it can allocate (a panic),
\* unless avg_per_cell is 0, which makes the capacity 0.
query_outcome(h, query_rect) ==
    LET mn == cell_coords(query_rect.x, query_rect.y)
        mx == cell_coords(query_rect.x + query_rect.width,
                          query_rect.y + query_rect.height)
        num_cells == (mx[1] - mn[1] + 1) * (mx[2] - mn[2] + 1)
        used == Cardinality(DOMAIN h.cells)
        avg_per_cell == Cardinality(DOMAIN h.entities) \div (IF used > 1 THEN used ELSE 1)
    IN  IF num_cells < 0 /\ avg_per_cell > 0 THEN "panic" ELSE "returned"

\* -------------------------------------------------------------- state
hash == [cells |-> cells, entities |-> entities]

\* history of the last call: what it did to the entity's cell list
\*   "first": the entity had no record, "same": the early return of update,
\*   "moved_disjoint": no old cell is a new cell, "moved": the other moves
effect_of(h, e, rect) ==
    IF e \notin DOMAIN h.entities THEN "first"
    ELSE IF h.entities[e] = cell_coords_rect(rect) THEN "same"
    ELSE IF Range(h.entities[e]) \cap Range(cell_coords_rect(rect)) = {}
         THEN "moved_disjoint"
         ELSE "moved"

Call(name, e, outcome, effect, rect) ==
    [name |-> name, entity |-> e, outcome |-> outcome, effect |-> effect,
     inverted |-> ~debug_assert_rect(rect),
     repeat |-> (e \in DOMAIN last_rect /\ rect = last_rect[e])]

InitHash ==
    /\ cells = SpatialHash_new.cells
    /\ entities = SpatialHash_new.entities
    /\ last_rect = [e \in Entity |-> NoRect]
    /\ op = [name |-> "new", entity |-> "none", outcome |-> "returned",
             effect |-> "none", inverted |-> FALSE, repeat |-> FALSE]
    /\ found = {}

\* spatial_hash.insert(entity, rect), called for an entity the index does not hold
Insert(e, rect) ==
    /\ e \notin DOMAIN entities
    /\ IF debug_assert_rect(rect)
       THEN /\ cells' = insert(hash, e, rect).cells
            /\ entities' = insert(hash, e, rect).entities
            /\ last_rect' = [last_rect EXCEPT ![e] = rect]
            /\ op' = Call("insert", e, "returned", "first", rect)
       ELSE /\ UNCHANGED <<cells, entities, last_rect>>
            /\ op' = Call("insert", e, "debug_assert", "none", rect)
    /\ found' = {}
    /\ UNCHANGED tvars
    /\ UNCHANGED wvars

\* spatial_hash.update(entity, new_rect)
Update(e, rect) ==
    /\ IF debug_assert_rect(rect)
       THEN /\ cells' = update(hash, e, rect).cells
            /\ entities' = update(hash, e, rect).entities
            /\ last_rect' = [last_rect EXCEPT ![e] = rect]
            /\ op' = Call("update", e, "returned", effect_of(hash, e, rect), rect)
       ELSE /\ UNCHANGED <<cells, entities, last_rect>>
            /\ op' = Call("update", e, "debug_assert", "none", rect)
    /\ found' = {}
    /\ UNCHANGED tvars
    /\ UNCHANGED wvars

\* mutant of Query: the buckets the query scanned are dropped from the index
Query_evicting(rect) ==
    /\ op' = Call("query", "none", query_outcome(hash, rect), "none", rect)
    /\ found' = IF query_outcome(hash, rect) = "returned" THEN query(hash, rect) ELSE {}
    /\ cells' = [c \in DOMAIN cells \ query_cells(rect) |-> cells[c]]
    /\ UNCHANGED <<entities, last_rect>>
    /\ UNCHANGED tvars
    /\ UNCHANGED wvars

\* spatial_hash.query(query_rect)
Query(rect) ==
    /\ op' = Call("query", "none", query_outcome(hash, rect), "none", rect)
    /\ found' = IF query_outcome(hash, rect) = "returned" THEN query(hash, rect) ELSE {}
    /\ UNCHANGED <<cells, entities, last_rect>>
    /\ UNCHANGED tvars
    /\ UNCHANGED wvars

\* ------------------------------------------------- transform hierarchy
NoParent == "none"
\* Option::None for a component the entity does not carry
Absent == [absent |-> TRUE]

Vector2(x, y) == <<x, y>>
\* Vector2 + Vector2 and Vector2 * Vector2 (component-wise)
VAdd(u, v) == <<u[1] + v[1], u[2] + v[2]>>
VMul(u, v) == <<u[1] * v[1], u[2] * v[2]>>

\* the local transforms the model writes: two pure translations, a rotation
\* of 270 with a scale, a negative rotation with a scale
LocalSamples ==
    { [position |-> Vector2(1, 2), rotation |-> 0, scale |-> Vector2(1, 1)],
      [position |-> Vector2(0 - 4, 7), rotation |-> 0, scale |-> Vector2(1, 1)],
      [position |-> Vector2(3, 0 - 1), rotation |-> 270, scale |-> Vector2(2, 3)],
      [position |-> Vector2(0 - 2, 5), rotation |-> 0 - 90, scale |-> Vector2(1, 2)] }

\* mutant of from_local: the parent's position is not added
from_local_own_position(parent, local) ==
    [position |-> local.position,
     rotation |-> (parent.rotation + local.rotation) % 360,
     scale |-> VMul(parent.scale, local.scale)]

\* GlobalTransform::from_local
from_local(parent, local) ==
    [position |-> VAdd(parent.position, local.position),
     rotation |-> (parent.rotation + local.rotation) % 360,
     scale |-> VMul(parent.scale, local.scale)]

\* mutant of from_root: the rotation is copied, not wrapped into [0, 360)
from_root_unwrapped(local) ==
    [position |-> local.position, rotation |-> local.rotation, scale |-> local.scale]

\* GlobalTransform::from_root
from_root(local) ==
    [position |-> local.position,
     rotation |-> local.rotation % 360,
     scale |-> local.scale]

\* the entity carries both a Transform and a GlobalTransform
HasPair(e) == transform[e] # Absent /\ global_transform[e] # Absent

\* mutant of push_children: only the first child is pushed
push_children_first_only(stack, gt, kids) ==
    IF kids = <<>> THEN stack
    ELSE Append(stack, [parent_gt |-> gt, entity |-> kids[1]])

\* for &child in children { stack.push((*global, child)) }
push_children(stack, gt, kids) ==
    stack \o [i \in 1..Len(kids) |-> [parent_gt |-> gt, entity |-> kids[i]]]

\* A pass in progress: g the GlobalTransform values, stack the work stack,
\* writes the entities written so far, in order.
\* the loop over the parents query of systems.rs, in the order "order"
RECURSIVE roots_loop(_, _)
roots_loop(st, order) ==
    IF order = <<>> THEN st
    ELSE LET e == Head(order)
             global == from_root(transform[e])
         IN  roots_loop([g |-> [st.g EXCEPT ![e] = global],
                         stack |-> push_children(st.stack, global, children[e]),
                         writes |-> Append(st.writes, e)],
                        Tail(order))

\* children.get_mut(entity) of systems.rs: With<ChildOf>, both components
children_query_has(e) == child_of[e] # NoParent /\ HasPair(e)

\* mutant of stack_loop: an entity without the pair ends the loop (break)
RECURSIVE stack_loop_aborts(_)
stack_loop_aborts(st) ==
    IF st.stack = <<>> THEN st
    ELSE LET top == st.stack[Len(st.stack)]
             rest == SubSeq(st.stack, 1, Len(st.stack) - 1)
             e == top.entity
         IN  IF ~(child_of[e] # NoParent /\ HasPair(e))
             THEN [st EXCEPT !.stack = <<>>]
             ELSE LET global == from_local(top.parent_gt, transform[e])
                  IN  stack_loop_aborts([g |-> [st.g EXCEPT ![e] = global],
                                         stack |-> push_children(rest, global, children[e]),
                                         writes |-> Append(st.writes, e)])

\* mutant of stack_loop: the children of an entity without the pair are
\* pushed with the world transform that was handed to that entity
RECURSIVE stack_loop_descends(_)
stack_loop_descends(st) ==
    IF st.stack = <<>> THEN st
    ELSE LET top == st.stack[Len(st.stack)]
             rest == SubSeq(st.stack, 1, Len(st.stack) - 1)
             e == top.entity
         IN  IF ~children_query_has(e)
             THEN stack_loop_descends(
                      [st EXCEPT !.stack = push_children(rest, top.parent_gt, children[e])])
             ELSE LET global == from_local(top.parent_gt, transform[e])
                  IN  stack_loop_descends([g |-> [st.g EXCEPT ![e] = global],
                                           stack |-> push_children(rest, global, children[e]),
                                           writes |-> Append(st.writes, e)])

\* while let Some((parent_gt, entity)) = stack.pop() { ... } of systems.rs
RECURSIVE stack_loop(_)
stack_loop(st) ==
    IF st.stack = <<>> THEN st
    ELSE LET top == st.stack[Len(st.stack)]
             rest == SubSeq(st.stack, 1, Len(st.stack) - 1)
             e == top.entity
         IN  IF ~children_query_has(e)
             THEN stack_loop([st EXCEPT !.stack = rest])
             ELSE LET global == from_local(top.parent_gt, transform[e])
                  IN  stack_loop([g |-> [st.g EXCEPT ![e] = global],
                                  stack |-> push_children(rest, global, children[e]),
                                  writes |-> Append(st.writes, e)])

\* update_global_transforms_system of systems.rs, its parents query iterated
\* in the order "order"
update_global_transforms_system(order) ==
    stack_loop(roots_loop([g |-> global_transform, stack |-> <<>>, writes |-> <<>>],
                          order))

\* p1.get_mut(entity) of main.rs: both components, with or without a parent
main_p1_has(e) == HasPair(e)

\* the loop over query.p0() of main.rs: every entity whose Transform changed
RECURSIVE main_changed_loop(_, _)
main_changed_loop(st, order) ==
    IF order = <<>> THEN st
    ELSE LET e == Head(order)
             global == from_root(transform[e])
         IN  main_changed_loop([g |-> [st.g EXCEPT ![e] = global],
                                stack |-> push_children(st.stack, global, children[e]),
                                writes |-> Append(st.writes, e)],
                               Tail(order))

\* the traversal loop of main.rs; parent_gt_opt is always Some(..)
RECURSIVE main_stack_loop(_)
main_stack_loop(st) ==
    IF st.stack = <<>> THEN st
    ELSE LET top == st.stack[Len(st.stack)]
             rest == SubSeq(st.stack, 1, Len(st.stack) - 1)
             e == top.entity
         IN  IF ~main_p1_has(e)
             THEN main_stack_loop([st EXCEPT !.stack = rest])
             ELSE LET gt == from_local(top.parent_gt, transform[e])
                  IN  main_stack_loop([g |-> [st.g EXCEPT ![e] = gt],
                                       stack |-> push_children(rest, gt, children[e]),
                                       writes |-> Append(st.writes, e)])

\* update_global_transforms_system of main.rs
main_update_global_transforms_system(order) ==
    main_stack_loop(main_changed_loop(
        [g |-> global_transform, stack |-> <<>>, writes |-> <<>>], order))

\* the orders in which a query may yield the entities of S
Orders(S) == {s \in [1..Cardinality(S) -> S] : Range(s) = S}

\* the chain of parents of e has no cycle (at most three entities)
Acyclic(p) ==
    \A e \in HierEntity :
        /\ p[e] # e
        /\ p[e] # NoParent => (p[p[e]] # e /\ (p[p[e]] # NoParent => p[p[p[e]]] # e))

NoPass == [name |-> "none", rewritten |-> {}, writes |-> <<>>]

\* The world after spawning: any forest, any local transforms; the entities
\* that have a Transform got their GlobalTransform from
\* ensure_global_transform_system (from_root of the Transform), and every
\* Transform counts as changed
InitTransform ==
    /\ child_of \in {p \in [HierEntity -> HierEntity \cup {NoParent}] : Acyclic(p)}
    /\ children \in [HierEntity -> UNION {Orders(S) : S \in SUBSET HierEntity}]
    /\ \A e \in HierEntity : Range(children[e]) = {c \in HierEntity : child_of[c] = e}
    /\ transform \in [HierEntity -> LocalSamples \cup {Absent}]
    /\ global_transform = [e \in HierEntity |->
                             IF transform[e] = Absent THEN Absent
                             ELSE from_root(transform[e])]
    /\ changed = {e \in HierEntity : transform[e] # Absent}
    /\ edits = 0
    /\ pass = NoPass

\* the transform variables of a world without a hierarchy
NoHierarchy ==
    /\ child_of = [e \in HierEntity |-> NoParent]
    /\ children = [e \in HierEntity |-> <<>>]
    /\ transform = [e \in HierEntity |-> Absent]
    /\ global_transform = [e \in HierEntity |-> Absent]
    /\ changed = {}
    /\ edits = 0
    /\ pass = NoPass

\* Option::None for the Velocity component (a Vector2 when present)
NoVelocity == <<>>

NotResolved == [name |-> "none"]
NotCulled == [name |-> "none"]
\* outside the fixed-step loop
NoTick == [phase |-> "none", count |-> 0, missing |-> {}, log |-> <<>>,
           hash_changed |-> {}, world_changed |-> {}, queried |-> <<>>]

\* a world without velocities, colliders and tags, before any pass
NoWorld ==
    /\ velocity = [e \in HierEntity |-> NoVelocity]
    /\ collider = [e \in HierEntity |-> Absent]
    /\ on_screen = {}
    /\ sprite = [e \in HierEntity |-> Absent]
    /\ resolved = NotResolved
    /\ culled = NotCulled
    /\ tick = NoTick

\* a system writes the Transform of an entity (DerefMut marks it changed)
SetTransform(e, t) ==
    /\ edits < MaxEdits
    /\ transform[e] # Absent
    /\ transform' = [transform EXCEPT ![e] = t]
    /\ changed' = changed \cup {e}
    /\ edits' = edits + 1
    /\ UNCHANGED <<child_of, children, global_transform, pass>>
    /\ UNCHANGED hvars
    /\ UNCHANGED wvars

Rewritten(g) == {e \in HierEntity : g[e] # global_transform[e]}

\* one run of update_global_transforms_system (systems.rs)
Propagate(order) ==
    /\ global_transform' = update_global_transforms_system(order).g
    /\ pass' = [name |-> "systems",
                rewritten |-> Rewritten(update_global_transforms_system(order).g),
                writes |-> update_global_transforms_system(order).writes]
    /\ changed' = {}
    /\ edits' = 0
    /\ UNCHANGED <<child_of, children, transform>>
    /\ UNCHANGED hvars
    /\ UNCHANGED wvars

\* one run of update_global_transforms_system (main.rs)
PropagateMain(order) ==
    /\ global_transform' = main_update_global_transforms_system(order).g
    /\ pass' = [name |-> "main",
                rewritten |-> Rewritten(main_update_global_transforms_system(order).g),
                writes |-> main_update_global_transforms_system(order).writes]
    /\ changed' = {}
    /\ edits' = 0
    /\ UNCHANGED <<child_of, children, transform>>
    /\ UNCHANGED hvars
    /\ UNCHANGED wvars

\* Query<.., Without<ChildOf>>: the roots that carry both components
ParentsQuery == {e \in HierEntity : child_of[e] = NoParent /\ HasPair(e)}
\* Query<.., Changed<Transform>>: the changed entities that carry both components
ChangedQuery == {e \in HierEntity : e \in changed /\ HasPair(e)}

\* --------------------------------------------------- collision resolver
\* Collider::default(): ColliderKind::Rectangle(32 x 32) and a zero offset,
\* in model units of 16
Collider_default == [size |-> Vector2(2, 2), offset |-> Vector2(0, 0)]

\* the component stores a resolution pass reads
World == [transform |-> transform, global_transform |-> global_transform,
          velocity |-> velocity, collider |-> collider, on_screen |-> on_screen]

\* the world-space rectangle of a collider: position - offset, size * scale
collider_rect(gt, c) ==
    [x |-> gt.position[1] - c.offset[1],
     y |-> gt.position[2] - c.offset[2],
     width |-> c.size[1] * gt.scale[1],
     height |-> c.size[2] * gt.scale[2]]

\* Rectangle::collides_rect: the open interiors of the rectangles intersect
collides_rect(r1, r2) ==
    /\ r1.x < r2.x + r2.width /\ r1.x + r1.width > r2.x
    /\ r1.y < r2.y + r2.height /\ r1.y + r1.height > r2.y

\* movers_q: Transform, GlobalTransform and Velocity
MoversQuery(w) ==
    {e \in HierEntity : /\ w.transform[e] # Absent
                        /\ w.global_transform[e] # Absent
                        /\ w.velocity[e] # NoVelocity}

\* static_colliders.get(e) of systems.rs: Collider, GlobalTransform, no Velocity
static_colliders_has(w, e) ==
    /\ w.collider[e] # Absent
    /\ w.global_transform[e] # Absent
    /\ w.velocity[e] = NoVelocity

\* static_colliders of main.rs: the same with the OnScreen tag
main_static_colliders_has(w, e) ==
    static_colliders_has(w, e) /\ e \in w.on_screen

\* the filter_map over movers_q: a mover without a Collider gets its velocity
\* added to its Transform and is left out of moving_rects
apply_to_colliderless(w) ==
    [e \in HierEntity |->
        IF e \in MoversQuery(w) /\ w.collider[e] = Absent
        THEN [w.transform[e] EXCEPT !.position = VAdd(@, w.velocity[e])]
        ELSE w.transform[e]]

\* mutant of moving_rects: a mover without a Collider is given the default
\* collider and stays in the list
moving_rects_all(w, order) ==
    [i \in 1..Len(order) |->
        [rect |-> collider_rect(w.global_transform[order[i]],
                                IF w.collider[order[i]] = Absent THEN Collider_default
                                ELSE w.collider[order[i]]),
         entity |-> order[i],
         velocity |-> w.velocity[order[i]]]]

\* moving_rects: (rectangle, entity of the Transform, velocity) of the movers
\* with a Collider, in the order movers_q yields them
moving_rects(w, order) ==
    LET HasCollider(e) == w.collider[e] # Absent
        es == SelectSeq(order, HasCollider)
    IN  [i \in 1..Len(es) |->
            [rect |-> collider_rect(w.global_transform[es[i]], w.collider[es[i]]),
             entity |-> es[i],
             velocity |-> w.velocity[es[i]]]]

\* mutant of static_rects: every static collider is a candidate, in the
\* query result or not
static_rects_all(w, h, player_rect, sorder) ==
    LET Candidate(e) == static_colliders_has(w, e)
        es == SelectSeq(sorder, Candidate)
    IN  [i \in 1..Len(es) |->
            collider_rect(w.global_transform[es[i]], w.collider[es[i]])]

\* static_rects of systems.rs: the static colliders among the entities the
\* index returns for the mover's rectangle, in the order the HashSet yields them
static_rects(w, h, player_rect, sorder) ==
    LET q == query(h, player_rect)
        Candidate(e) == e \in q /\ static_colliders_has(w, e)
        es == SelectSeq(sorder, Candidate)
    IN  [i \in 1..Len(es) |->
            collider_rect(w.global_transform[es[i]], w.collider[es[i]])]

\* static_rects of main.rs: every static collider that carries OnScreen
main_static_rects(w, sorder) ==
    LET Candidate(e) == main_static_colliders_has(w, e)
        es == SelectSeq(sorder, Candidate)
    IN  [i \in 1..Len(es) |->
            collider_rect(w.global_transform[es[i]], w.collider[es[i]])]
Abs(n) == IF n < 0 THEN 0 - n ELSE n

\* the clamp of the moving branch on the X axis against one rectangle
clamp_x(player_rect, v, other) ==
    IF collides_rect(player_rect, other)
    THEN IF v[1] > 0 THEN [player_rect EXCEPT !.x = other.x - player_rect.width]
         ELSE IF v[1] < 0 THEN [player_rect EXCEPT !.x = other.x + other.width]
         ELSE player_rect
    ELSE player_rect

\* the clamp of the moving branch on the Y axis against one rectangle
clamp_y(player_rect, v, other) ==
    IF collides_rect(player_rect, other)
    THEN IF v[2] > 0 THEN [player_rect EXCEPT !.y = other.y - player_rect.height]
         ELSE IF v[2] < 0 THEN [player_rect EXCEPT !.y = other.y + other.height]
         ELSE player_rect
    ELSE player_rect

\* mutant of push_out: the push is along the axis of the larger overlap
push_out_most_penetration(player_rect, other) ==
    IF ~collides_rect(player_rect, other) THEN player_rect
    ELSE LET twice_delta_x == (2 * player_rect.x + player_rect.width)
                                 - (2 * other.x + other.width)
             twice_delta_y == (2 * player_rect.y + player_rect.height)
                                 - (2 * other.y + other.height)
             intersect_x == ((player_rect.width + other.width)
                                 - Abs(twice_delta_x)) \div 2
             intersect_y == ((player_rect.height + other.height)
                                 - Abs(twice_delta_y)) \div 2
         IN  IF intersect_x > intersect_y
             THEN IF twice_delta_x > 0
                  THEN [player_rect EXCEPT !.x = @ + intersect_x]
                  ELSE [player_rect EXCEPT !.x = @ - intersect_x]
             ELSE IF twice_delta_y > 0
                  THEN [player_rect EXCEPT !.y = @ + intersect_y]
                  ELSE [player_rect EXCEPT !.y = @ - intersect_y]

\* The push of the stationary branch out of one rectangle.  twice_delta and
\* twice_intersect are 2 * delta and 2 * intersect of the source; with integer
\* coordinates twice_intersect is even, so the halving is exact.
push_out(player_rect, other) ==
    IF ~collides_rect(player_rect, other) THEN player_rect
    ELSE LET twice_delta_x == (2 * player_rect.x + player_rect.width)
                                 - (2 * other.x + other.width)
             twice_delta_y == (2 * player_rect.y + player_rect.height)
                                 - (2 * other.y + other.height)
             intersect_x == ((player_rect.width + other.width)
                                 - Abs(twice_delta_x)) \div 2
             intersect_y == ((player_rect.height + other.height)
                                 - Abs(twice_delta_y)) \div 2
         IN  IF intersect_x < intersect_y
             THEN IF twice_delta_x > 0
                  THEN [player_rect EXCEPT !.x = @ + intersect_x]
                  ELSE [player_rect EXCEPT !.x = @ - intersect_x]
             ELSE IF twice_delta_y > 0
                  THEN [player_rect EXCEPT !.y = @ + intersect_y]
                  ELSE [player_rect EXCEPT !.y = @ - intersect_y]

\* for rect in rects { clamp on X }
RECURSIVE clamp_x_all(_, _, _)
clamp_x_all(player_rect, v, rects) ==
    IF rects = <<>> THEN player_rect
    ELSE clamp_x_all(clamp_x(player_rect, v, Head(rects)), v, Tail(rects))

\* for rect in rects { clamp on Y }
RECURSIVE clamp_y_all(_, _, _)
clamp_y_all(player_rect, v, rects) ==
    IF rects = <<>> THEN player_rect
    ELSE clamp_y_all(clamp_y(player_rect, v, Head(rects)), v, Tail(rects))

\* for rect in rects { push out }
RECURSIVE push_out_all(_, _)
push_out_all(player_rect, rects) ==
    IF rects = <<>> THEN player_rect
    ELSE push_out_all(push_out(player_rect, Head(rects)), Tail(rects))

\* the rectangles of left.iter().chain(rest.iter())
RectsOf(others) == [i \in 1..Len(others) |-> others[i].rect]

\* mutant of StationaryOf: a moving mover is an obstacle of the stationary branch too
StationaryOf_all(others) == RectsOf(others)

\* the rectangles of the other movers whose velocity is zero on both axes
StationaryOf(others) ==
    LET AtRest(m) == m.velocity[1] = 0 /\ m.velocity[2] = 0
    IN  RectsOf(SelectSeq(others, AtRest))

\* mutant of resolve_mover: the Y axis is resolved before the X axis
resolve_mover_y_first(player_rect, v, statics, others) ==
    IF v[1] # 0 \/ v[2] # 0
    THEN LET py == clamp_y_all(clamp_y_all([player_rect EXCEPT !.y = @ + v[2]],
                                           v, statics),
                               v, RectsOf(others))
         IN  clamp_x_all(clamp_x_all([py EXCEPT !.x = @ + v[1]], v, statics),
                         v, RectsOf(others))
    ELSE push_out_all(push_out_all(player_rect, statics), StationaryOf(others))

\* the body of the loop over moving_rects for one mover: the moving branch
\* (X displacement, clamps against statics then movers, the same on Y) or the
\* stationary branch (push out of statics, then of movers at rest)
resolve_mover(player_rect, v, statics, others) ==
    IF v[1] # 0 \/ v[2] # 0
    THEN LET px == clamp_x_all(clamp_x_all([player_rect EXCEPT !.x = @ + v[1]],
                                           v, statics),
                               v, RectsOf(others))
         IN  clamp_y_all(clamp_y_all([px EXCEPT !.y = @ + v[2]], v, statics),
                         v, RectsOf(others))
    ELSE push_out_all(push_out_all(player_rect, statics), StationaryOf(others))

\* transform.position += player_rect.position() - original_position
add_delta(t, player_rect, original_position) ==
    [t EXCEPT !.position = VAdd(@, Vector2(player_rect.x - original_position[1],
                                           player_rect.y - original_position[2]))]

\* mutant of resolve_loop: the mover is compared against itself as well
RECURSIVE resolve_loop_with_self(_, _, _, _, _, _, _)
resolve_loop_with_self(i, mr, t, w, h, sorder, indexed) ==
    IF i > Len(mr) THEN [moving_rects |-> mr, transform |-> t]
    ELSE LET cur == mr[i]
             statics == IF indexed THEN static_rects(w, h, cur.rect, sorder)
                        ELSE main_static_rects(w, sorder)
             player_rect == resolve_mover(cur.rect, cur.velocity, statics, mr)
         IN  resolve_loop_with_self(i + 1,
                          [mr EXCEPT ![i].rect = player_rect],
                          [t EXCEPT ![cur.entity] =
                              add_delta(@, player_rect, Vector2(cur.rect.x, cur.rect.y))],
                          w, h, sorder, indexed)

\* for i in 0..moving_rects.len() { ... }: mr is moving_rects, t the
\* Transforms; indexed tells the pass of systems.rs (statics from the index,
\* queried with the rectangle the mover has when its turn starts) from the
\* pass of main.rs (all static colliders on screen)
RECURSIVE resolve_loop(_, _, _, _, _, _, _)
resolve_loop(i, mr, t, w, h, sorder, indexed) ==
    IF i > Len(mr) THEN [moving_rects |-> mr, transform |-> t]
    ELSE LET cur == mr[i]
             others == SubSeq(mr, 1, i - 1) \o SubSeq(mr, i + 1, Len(mr))
             statics == IF indexed THEN static_rects(w, h, cur.rect, sorder)
                        ELSE main_static_rects(w, sorder)
             player_rect == resolve_mover(cur.rect, cur.velocity, statics, others)
         IN  resolve_loop(i + 1,
                          [mr EXCEPT ![i].rect = player_rect],
                          [t EXCEPT ![cur.entity] =
                              add_delta(@, player_rect, Vector2(cur.rect.x, cur.rect.y))],
                          w, h, sorder, indexed)

\* apply_velocity_system of systems.rs: order is the order of movers_q,
\* sorder the order in which a query result is iterated
apply_velocity_system(w, h, order, sorder) ==
    resolve_loop(1, moving_rects(w, order), apply_to_colliderless(w),
                 w, h, sorder, TRUE)

\* apply_velocity_system of main.rs
main_apply_velocity_system(w, order, sorder) ==
    resolve_loop(1, moving_rects(w, order), apply_to_colliderless(w),
                 w, SpatialHash_new, sorder, FALSE)
\* ------------------------------------------------- visibility culling
\* the world-space rectangle update_on_screen_system queries:
\* target -+ screen_size / zoom (zoom divides screen_size in the model)
camera_rect(camera) ==
    LET min_x == camera.target[1] - camera.screen_size[1] \div camera.zoom
        min_y == camera.target[2] - camera.screen_size[2] \div camera.zoom
        max_x == camera.target[1] + camera.screen_size[1] \div camera.zoom
        max_y == camera.target[2] + camera.screen_size[2] \div camera.zoom
    IN  [x |-> min_x, y |-> min_y, width |-> max_x - min_x, height |-> max_y - min_y]

\* mutant of update_on_screen_system: the removal loop is missing
update_on_screen_system_only_adds(h, camera, tagged) ==
    tagged \cup query(h, camera_rect(camera))

\* mutant of update_on_screen_system: the insert commands are missing
update_on_screen_system_only_removes(h, camera, tagged) ==
    tagged \cap query(h, camera_rect(camera))

\* update_on_screen_system and the application of its commands: OnScreen is
\* inserted for every entity of the query result, then removed from every
\* entity that carried it and is not in the result
update_on_screen_system(h, camera, tagged) ==
    LET on_screen_entities == query(h, camera_rect(camera))
    IN  (tagged \cup on_screen_entities)
            \ {entity \in tagged : entity \notin on_screen_entities}

\* ------------------------------------------- the resolver's specification
Positions == {Vector2(x, y) : x \in 0..MaxPos, y \in 0..MaxPosY}

\* per-tick displacements: at rest, +X, -X, diagonal
VelocitySamples == {Vector2(0, 0), Vector2(2, 0), Vector2(0 - 1, 0), Vector2(1, 1)}

\* a transform without rotation and scale at p
PlainAt(p) == [position |-> p, rotation |-> 0, scale |-> Vector2(1, 1)]

\* the camera of the resolver's world: it sees x in [-1, 3], y in [-2, 2]
ResolverCamera == [target |-> Vector2(1, 0), screen_size |-> Vector2(2, 2), zoom |-> 1]

\* update_spatial_hash_system for sprites that coincide with the colliders:
\* every entity of es that has a collider is registered with its rectangle
RECURSIVE register_all(_, _, _)
register_all(h, es, w) ==
    IF es = <<>> THEN h
    ELSE IF w.collider[Head(es)] # Absent /\ w.global_transform[Head(es)] # Absent
         THEN register_all(update(h, Head(es),
                                  collider_rect(w.global_transform[Head(es)],
                                                w.collider[Head(es)])),
                           Tail(es), w)
         ELSE register_all(h, Tail(es), w)

\* The world when PostPhysicsUpdate starts: "r" is a static collider, "a" a
\* mover with a collider, possibly the child of "b", and "b" a static
\* collider or a mover with or without a collider; world transforms are
\* propagated, the index holds every collider under its current rectangle
\* and OnScreen is what the culling pass left for ResolverCamera
InitResolver ==
    /\ collider \in [HierEntity -> {Collider_default, Absent}]
    /\ collider["r"] # Absent /\ collider["a"] # Absent
    /\ velocity \in [HierEntity -> VelocitySamples \cup {NoVelocity}]
    /\ velocity["r"] = NoVelocity /\ velocity["a"] # NoVelocity
    /\ velocity["b"] = NoVelocity => collider["b"] # Absent
    /\ child_of \in {[e \in HierEntity |-> NoParent],
                     [e \in HierEntity |-> IF e = "a" THEN "b" ELSE NoParent]}
    /\ children = [e \in HierEntity |->
                      IF e = "b" /\ child_of["a"] = "b" THEN <<"a">> ELSE <<>>]
    /\ global_transform \in [HierEntity -> {PlainAt(p) : p \in Positions}]
    /\ transform = [e \in HierEntity |->
                      IF child_of[e] = NoParent THEN global_transform[e]
                      ELSE PlainAt(Vector2(
                              global_transform[e].position[1]
                                  - global_transform[child_of[e]].position[1],
                              global_transform[e].position[2]
                                  - global_transform[child_of[e]].position[2]))]
    /\ changed = {}
    /\ edits = 0
    /\ pass = NoPass
    /\ cells = register_all(SpatialHash_new, <<"r", "a", "b">>,
                            [collider |-> collider,
                             global_transform |-> global_transform]).cells
    /\ entities = register_all(SpatialHash_new, <<"r", "a", "b">>,
                               [collider |-> collider,
                                global_transform |-> global_transform]).entities
    /\ last_rect = [e \in Entity |-> NoRect]
    /\ op = [name |-> "new", entity |-> "none", outcome |-> "returned",
             effect |-> "none", inverted |-> FALSE, repeat |-> FALSE]
    /\ found = {}
    /\ on_screen = update_on_screen_system(hash, ResolverCamera, {})
    /\ sprite = [e \in HierEntity |-> Absent]
    /\ resolved = NotResolved
    /\ culled = NotCulled
    /\ tick = NoTick

\* static_colliders: the entities its iteration or a query result may yield
StaticsQuery == {e \in HierEntity : static_colliders_has(World, e)}

\* what a resolution pass leaves in the history: the Transforms and the world
\* transforms it started from, moving_rects as built and as resolved
Resolution(name, res, order) ==
    [name |-> name,
     before |-> transform,
     world_before |-> global_transform,
     start |-> moving_rects(World, order),
     moving_rects |-> res.moving_rects]

\* the index after an update with the resolved rectangle of every mover of mr
RECURSIVE reindexed(_, _)
reindexed(h, mr) ==
    IF mr = <<>> THEN h
    ELSE reindexed(update(h, Head(mr).entity, Head(mr).rect), Tail(mr))

\* mutant of ApplyVelocity: the pass also moves the movers inside the index
ApplyVelocity_reindexing(order, sorder) ==
    /\ resolved.name = "none"
    /\ transform' = apply_velocity_system(World, hash, order, sorder).transform
    /\ changed' = changed \cup MoversQuery(World)
    /\ resolved' = Resolution("systems",
                              apply_velocity_system(World, hash, order, sorder), order)
    /\ cells' = reindexed(hash, resolved'.moving_rects).cells
    /\ entities' = reindexed(hash, resolved'.moving_rects).entities
    /\ UNCHANGED <<child_of, children, global_transform, edits, pass>>
    /\ UNCHANGED <<velocity, collider, sprite, on_screen, culled, tick>>
    /\ UNCHANGED <<last_rect, op, found>>

\* PostPhysicsUpdate with apply_velocity_system of systems.rs
ApplyVelocity(order, sorder) ==
    /\ resolved.name = "none"
    /\ transform' = apply_velocity_system(World, hash, order, sorder).transform
    /\ changed' = changed \cup MoversQuery(World)
    /\ resolved' = Resolution("systems",
                              apply_velocity_system(World, hash, order, sorder), order)
    /\ UNCHANGED <<child_of, children, global_transform, edits, pass>>
    /\ UNCHANGED <<velocity, collider, sprite, on_screen, culled, tick>>
    /\ UNCHANGED hvars

\* PostPhysicsUpdate with apply_velocity_system of main.rs
ApplyVelocityMain(order, sorder) ==
    /\ resolved.name = "none"
    /\ transform' = main_apply_velocity_system(World, order, sorder).transform
    /\ changed' = changed \cup MoversQuery(World)
    /\ resolved' = Resolution("main",
                              main_apply_velocity_system(World, order, sorder), order)
    /\ UNCHANGED <<child_of, children, global_transform, edits, pass>>
    /\ UNCHANGED <<velocity, collider, sprite, on_screen, culled, tick>>
    /\ UNCHANGED hvars

\* the propagation pass that follows the resolution pass in LastPhysicsUpdate
PropagateResolved ==
    /\ resolved.name = "systems" /\ pass.name = "none"
    /\ \E order \in Orders(ParentsQuery) : Propagate(order)

NextResolver ==
    \E order \in Orders(MoversQuery(World)), sorder \in Orders(StaticsQuery) :
        ApplyVelocity(order, sorder)

\* the resolution pass of systems.rs
SpecResolver == InitResolver /\ [][NextResolver]_vars

NextResolverTick ==
    \/ \E order \in Orders(MoversQuery(World)), sorder \in Orders(StaticsQuery) :
          ApplyVelocity(order, sorder)
    \/ PropagateResolved

\* the resolution pass of systems.rs and the propagation pass after it
SpecResolverTick == InitResolver /\ [][NextResolverTick]_vars

NextResolverMain ==
    \E order \in Orders(MoversQuery(World)), sorder \in Orders(StaticsQuery) :
        ApplyVelocityMain(order, sorder)

\* the resolution pass of main.rs
SpecResolverMain == InitResolver /\ [][NextResolverMain]_vars
\* --------------------------------------------- the culler's specification
\* the camera follows its target; the window is 2 x 2 and the zoom 1 or 2
CameraTargets == (0 - 3)..MaxCoord
Cameras == [target : CameraTargets \X CameraTargets,
            screen_size : {Vector2(2, 2)},
            zoom : {1, 2}]

\* The world when update_on_screen_system runs: each entity is either unknown
\* to the index or registered under a rectangle, and any set of entities
\* carries OnScreen (the tag is also given at spawn)
InitCuller ==
    /\ last_rect \in [Entity -> {r \in Rectangle : debug_assert_rect(r)} \cup {NoRect}]
    /\ cells = register_all(SpatialHash_new, <<"e1", "e2">>,
                 [collider |-> [e \in Entity |->
                                   IF last_rect[e] = NoRect THEN Absent
                                   ELSE [size |-> Vector2(last_rect[e].width,
                                                          last_rect[e].height),
                                         offset |-> Vector2(0, 0)]],
                  global_transform |-> [e \in Entity |->
                                   PlainAt(Vector2(last_rect[e].x, last_rect[e].y))]]).cells
    /\ entities = register_all(SpatialHash_new, <<"e1", "e2">>,
                 [collider |-> [e \in Entity |->
                                   IF last_rect[e] = NoRect THEN Absent
                                   ELSE [size |-> Vector2(last_rect[e].width,
                                                          last_rect[e].height),
                                         offset |-> Vector2(0, 0)]],
                  global_transform |-> [e \in Entity |->
                                   PlainAt(Vector2(last_rect[e].x, last_rect[e].y))]]).entities
    /\ op = [name |-> "new", entity |-> "none", outcome |-> "returned",
             effect |-> "none", inverted |-> FALSE, repeat |-> FALSE]
    /\ found = {}
    /\ on_screen \in SUBSET Entity
    /\ velocity = [e \in HierEntity |-> NoVelocity]
    /\ collider = [e \in HierEntity |-> Absent]
    /\ sprite = [e \in HierEntity |-> Absent]
    /\ resolved = NotResolved
    /\ culled = NotCulled
    /\ tick = NoTick
    /\ NoHierarchy

\* update_on_screen_system, with the commands it queued applied
Cull(camera) ==
    /\ on_screen' = update_on_screen_system(hash, camera, on_screen)
    /\ culled' = [name |-> "update_on_screen_system", camera |-> camera,
                  before |-> on_screen]
    /\ UNCHANGED <<velocity, collider, sprite, resolved, tick>>
    /\ UNCHANGED hvars
    /\ UNCHANGED tvars

NextCuller == \E camera \in Cameras : Cull(camera)

\* the visibility culling pass over an index that holds up to two entities
SpecCuller == InitCuller /\ [][NextCuller]_vars

\* ------------------------------------------ the fixed-step loop of main
\* the fixed-step loop is followed for MaxTicks ticks
MaxTicks == 2

\* mutant of ensure_global_transform_system: entities with a parent are skipped
ensure_global_transform_system_roots(t, g) ==
    [e \in HierEntity |->
        IF t[e] # Absent /\ g[e] = Absent /\ child_of[e] = NoParent
        THEN from_root(t[e]) ELSE g[e]]

\* ensure_global_transform_system with its commands applied at the end of the
\* schedule: insert_if_new(GlobalTransform::from_root(t)) for every entity
\* of Query<(Entity, &Transform), Without<GlobalTransform>>
ensure_global_transform_system(t, g) ==
    [e \in HierEntity |->
        IF t[e] # Absent /\ g[e] = Absent THEN from_root(t[e]) ELSE g[e]]

\* the entities ensure_global_transform_system's query yields
MissingGlobal(t, g) == {e \in HierEntity : t[e] # Absent /\ g[e] = Absent}

\* Sprite { kind: Rectangle { size }, origin } and Sprite { kind: Circle
\* { radius }, origin }, the origin as get_origin_vector returns it
RectangleSprite(size, origin) ==
    [kind |-> "Rectangle", size |-> size, radius |-> 0, origin |-> origin]
CircleSprite(radius, origin) ==
    [kind |-> "Circle", size |-> Vector2(0, 0), radius |-> radius, origin |-> origin]
TextureSprite == [kind |-> "Texture", size |-> Vector2(0, 0), radius |-> 0,
                  origin |-> Vector2(0, 0)]

\* the rectangle update_spatial_hash_system derives from a sprite and the
\* transform t it reads (position and scale)
sprite_rect(t, s) ==
    LET w == IF s.kind = "Rectangle" THEN s.size[1] * t.scale[1]
             ELSE s.radius * t.scale[1]
        h == IF s.kind = "Rectangle" THEN s.size[2] * t.scale[2]
             ELSE s.radius * t.scale[2]
    IN  [x |-> t.position[1] - w * s.origin[1],
         y |-> t.position[2] - h * s.origin[2],
         width |-> w, height |-> h]

\* update_spatial_hash_system of main.rs over the entities its query yields,
\* in the order "order": the rectangle comes from the local Transform
RECURSIVE main_update_spatial_hash_system(_, _)
main_update_spatial_hash_system(h, order) ==
    IF order = <<>> THEN h
    ELSE IF sprite[Head(order)].kind = "Texture"
         THEN main_update_spatial_hash_system(h, Tail(order))
         ELSE main_update_spatial_hash_system(
                  update(h, Head(order),
                         sprite_rect(transform[Head(order)], sprite[Head(order)])),
                  Tail(order))

\* Query<(Entity, &Sprite, &Transform), Changed<Transform>> of main.rs
HashUpdateQuery ==
    {e \in HierEntity : /\ sprite[e] # Absent
                        /\ transform[e] # Absent
                        /\ e \in tick.hash_changed}

\* mutant of last_physics_update_chain: the culling system runs first
last_physics_update_chain_culls_first ==
    <<"update_on_screen_system", "update_spatial_hash_system">>

\* (update_spatial_hash_system, update_on_screen_system).chain()
last_physics_update_chain ==
    <<"update_spatial_hash_system", "update_on_screen_system">>

\* the systems of a chain run one after another on st = [hash, on_screen,
\* log, hash_changed, queried]; queried is the record map of the index the
\* culling query reads
RECURSIVE run_chain(_, _, _)
run_chain(chain, st, uorder) ==
    IF chain = <<>> THEN st
    ELSE IF Head(chain) = "update_spatial_hash_system"
         THEN run_chain(Tail(chain),
                        [st EXCEPT !.hash = main_update_spatial_hash_system(@, uorder),
                                   !.hash_changed = {},
                                   !.log = Append(@, Head(chain))],
                        uorder)
         ELSE run_chain(Tail(chain),
                        [st EXCEPT !.on_screen =
                                       update_on_screen_system(st.hash, ResolverCamera, @),
                                   !.queried = st.hash.entities,
                                   !.log = Append(@, Head(chain))],
                        uorder)

\* the tick record when the loop is entered
FirstTick ==
    [phase |-> "first", count |-> 0,
     missing |-> MissingGlobal(transform, global_transform),
     log |-> <<>>,
     hash_changed |-> {e \in HierEntity : transform[e] # Absent},
     world_changed |-> {},
     queried |-> <<>>]

\* The world main has spawned when the loop starts: any forest and local
\* transforms, no GlobalTransform yet (no spawn gives one), the player "a"
\* and possibly "b" with Velocity::default() and OnScreen; the entities carry
\* neither Sprite nor Collider, and the index is empty
InitTick ==
    /\ child_of \in {p \in [HierEntity -> HierEntity \cup {NoParent}] : Acyclic(p)}
    /\ children \in [HierEntity -> UNION {Orders(S) : S \in SUBSET HierEntity}]
    /\ \A e \in HierEntity : Range(children[e]) = {c \in HierEntity : child_of[c] = e}
    /\ transform \in [HierEntity -> LocalSamples \cup {Absent}]
    /\ global_transform = [e \in HierEntity |-> Absent]
    /\ changed = {e \in HierEntity : transform[e] # Absent}
    /\ edits = 0
    /\ pass = NoPass
    /\ InitHash
    /\ velocity \in {v \in [HierEntity -> {NoVelocity, Vector2(0, 0)}] :
                        v["a"] # NoVelocity /\ v["r"] = NoVelocity}
    /\ collider = [e \in HierEntity |-> Absent]
    /\ sprite = [e \in HierEntity |-> Absent]
    /\ on_screen = {e \in HierEntity : velocity[e] # NoVelocity}
    /\ resolved = NotResolved
    /\ culled = NotCulled
    /\ tick = FirstTick

\* the hierarchies of the world with sprites: no parent at all, "a" under
\* "b", the chain b - a - r, "a" and "r" under "b"
SpriteForests ==
    {[e \in HierEntity |-> NoParent],
     [e \in HierEntity |-> IF e = "a" THEN "b" ELSE NoParent],
     [e \in HierEntity |-> IF e = "a" THEN "b" ELSE IF e = "r" THEN "a" ELSE NoParent],
     [e \in HierEntity |-> IF e = "b" THEN NoParent ELSE "b"]}

\* the local transforms of the world with sprites
SpriteLocals ==
    {PlainAt(Vector2(0, 0)), PlainAt(Vector2(3, 1)),
     [position |-> Vector2(1, 0), rotation |-> 0, scale |-> Vector2(2, 2)]}

\* The world main has spawned when the loop starts, with sprites: the player
\* "a" has a Rectangle or a Circle sprite, "r" a Rectangle sprite, a Texture
\* sprite or none, "b" has none; no GlobalTransform yet, the index is empty
InitTickIndex ==
    /\ child_of \in SpriteForests
    /\ children \in [HierEntity -> UNION {Orders(S) : S \in SUBSET HierEntity}]
    /\ \A e \in HierEntity : Range(children[e]) = {c \in HierEntity : child_of[c] = e}
    /\ transform \in [HierEntity -> SpriteLocals]
    /\ global_transform = [e \in HierEntity |-> Absent]
    /\ changed = HierEntity
    /\ edits = 0
    /\ pass = NoPass
    /\ InitHash
    /\ velocity \in {v \in [HierEntity -> {NoVelocity, Vector2(0, 0)}] :
                        v["a"] # NoVelocity /\ v["r"] = NoVelocity}
    /\ collider = [e \in HierEntity |-> Absent]
    /\ sprite \in {s \in [HierEntity -> {Absent, TextureSprite,
                                         RectangleSprite(Vector2(1, 1), Vector2(0, 0)),
                                         CircleSprite(1, Vector2(1, 1))}] :
                      /\ s["b"] = Absent
                      /\ s["a"] # Absent /\ s["a"].kind # "Texture"
                      /\ s["r"] = Absent \/ s["r"].kind # "Circle"}
    /\ on_screen = {e \in HierEntity : velocity[e] # NoVelocity}
    /\ resolved = NotResolved
    /\ culled = NotCulled
    /\ tick = FirstTick

\* first_physics_update_schedule: ensure_global_transform_system
FirstPhysicsUpdate ==
    /\ tick.phase = "first" /\ tick.count < MaxTicks
    /\ global_transform' = ensure_global_transform_system(transform, global_transform)
    /\ tick' = [tick EXCEPT !.phase = "pre",
                            !.world_changed =
                                MissingGlobal(transform, global_transform),
                            !.log = <<"ensure_global_transform_system">>]
    /\ UNCHANGED <<child_of, children, transform, changed, edits, pass>>
    /\ UNCHANGED <<velocity, collider, sprite, on_screen, resolved, culled>>
    /\ UNCHANGED hvars

\* pre_physics_update_schedule: update_global_transforms_system of main.rs,
\* then sync_collider_with_sprite_system (no entity has a Collider)
PrePhysicsUpdate(order) ==
    /\ tick.phase = "pre"
    /\ LET done == main_update_global_transforms_system(order)
       IN  /\ global_transform' = done.g
           /\ pass' = [name |-> "main", rewritten |-> Rewritten(done.g),
                       writes |-> done.writes]
           /\ tick' = [tick EXCEPT
                          !.phase = "physics",
                          !.world_changed = @ \cup Rewritten(done.g),
                          !.log = @ \o <<"update_global_transforms_system",
                                         "sync_collider_with_sprite_system">>]
    /\ changed' = {}
    /\ UNCHANGED <<child_of, children, transform, edits>>
    /\ UNCHANGED <<velocity, collider, sprite, on_screen, resolved, culled>>
    /\ UNCHANGED hvars

\* physics_update_schedule: move_player_system writes the player's Velocity
PhysicsUpdate(m) ==
    /\ tick.phase = "physics"
    /\ velocity' = [velocity EXCEPT !["a"] = m]
    /\ tick' = [tick EXCEPT !.phase = "post", !.log = Append(@, "move_player_system")]
    /\ UNCHANGED tvars
    /\ UNCHANGED <<collider, sprite, on_screen, resolved, culled>>
    /\ UNCHANGED hvars

\* post_physics_update_schedule: apply_velocity_system of main.rs
PostPhysicsUpdate(order, sorder) ==
    /\ tick.phase = "post"
    /\ LET done == main_apply_velocity_system(World, order, sorder)
       IN  /\ transform' = done.transform
           /\ resolved' = Resolution("main", done, order)
    /\ changed' = changed \cup MoversQuery(World)
    /\ tick' = [tick EXCEPT !.phase = "last",
                            !.hash_changed = @ \cup MoversQuery(World),
                            !.log = Append(@, "apply_velocity_system")]
    /\ UNCHANGED <<child_of, children, global_transform, edits, pass>>
    /\ UNCHANGED <<velocity, collider, sprite, on_screen, culled>>
    /\ UNCHANGED hvars

\* what update_global_transforms_system and then the chain of
\* last_physics_update_schedule leave, from the state the schedule starts in
LastRun(uorder) ==
    run_chain(last_physics_update_chain,
              [hash |-> hash, on_screen |-> on_screen,
               log |-> Append(tick.log, "update_global_transforms_system"),
               hash_changed |-> tick.hash_changed, queried |-> <<>>],
              uorder)

\* last_physics_update_schedule: update_global_transforms_system, then
\* update_spatial_hash_system, then update_on_screen_system; the tick ends
LastPhysicsUpdate(order, uorder) ==
    /\ tick.phase = "last"
    /\ LET done == main_update_global_transforms_system(order)
           run == LastRun(uorder)
       IN  /\ global_transform' = done.g
           /\ pass' = [name |-> "main", rewritten |-> Rewritten(done.g),
                       writes |-> done.writes]
           /\ cells' = run.hash.cells
           /\ entities' = run.hash.entities
           /\ on_screen' = run.on_screen
           /\ tick' = [phase |-> "first", count |-> tick.count + 1,
                       missing |-> MissingGlobal(transform, done.g),
                       log |-> run.log,
                       hash_changed |-> run.hash_changed,
                       world_changed |-> tick.world_changed \cup Rewritten(done.g),
                       queried |-> run.queried]
    /\ changed' = {}
    /\ culled' = [name |-> "update_on_screen_system", camera |-> ResolverCamera,
                  before |-> on_screen]
    /\ UNCHANGED <<child_of, children, transform, edits>>
    /\ UNCHANGED <<velocity, collider, sprite, resolved>>
    /\ UNCHANGED <<last_rect, op, found>>

NextTick ==
    \/ FirstPhysicsUpdate
    \/ \E order \in Orders(ChangedQuery) : PrePhysicsUpdate(order)
    \/ \E m \in VelocitySamples : PhysicsUpdate(m)
    \/ \E order \in Orders(MoversQuery(World)), sorder \in Orders(StaticsQuery) :
          PostPhysicsUpdate(order, sorder)
    \/ \E order \in Orders(ChangedQuery), uorder \in Orders(HashUpdateQuery) :
          LastPhysicsUpdate(order, uorder)

\* the schedules of one pass of the fixed-step loop, in the order main runs them
SpecTick == InitTick /\ [][NextTick]_vars

\* the same loop over a world whose entities carry sprites
SpecTickIndex == InitTickIndex /\ [][NextTick]_vars

\* the spatial index on its own
InitIndexOnly == InitHash /\ NoHierarchy /\ NoWorld

\* --------------------------------------------- cell_coords on its own
TestXs == (0 - MaxTestCoord)..MaxTestCoord
TestYs == {0 - 5, 0 - 1, 0, 5}

\* index.cell_coords(x, y) on an index constructed with cell_size
CellCoords(cell_size, x, y) ==
    /\ op' = [name |-> "cell_coords", cell_size |-> cell_size, x |-> x, y |-> y,
              returned |-> cell_coords_of(cell_size, x, y)]
    /\ UNCHANGED <<cells, entities, last_rect, found>>
    /\ UNCHANGED tvars
    /\ UNCHANGED wvars

NextCellCoords ==
    \E cell_size \in {CellSize, TestCellSize}, x \in TestXs, y \in TestYs :
        CellCoords(cell_size, x, y)

\* calls of cell_coords on an empty index
SpecCellCoords == InitIndexOnly /\ [][NextCellCoords]_vars

\* ------------------------------------------- rotations as f32 values
\* GlobalTransform.rotation is an f32.  Here a rotation is counted in units of
\* 2^-17 degree, a quarter of the spacing of the f32 values between 256 and
\* 512; every whole number of units below 128 degrees is an f32 value.
Degree == 2 ^ 17
FullTurn == 360 * Degree

\* the spacing of the f32 values (24-bit significand) of magnitude a, in units
ulp(a) ==
    IF a < 128 * Degree THEN 1
    ELSE IF a < 256 * Degree THEN 2
    ELSE IF a < 512 * Degree THEN 4
    ELSE IF a < 1024 * Degree THEN 8
    ELSE 16

\* the f32 result of an addition whose exact result is v: the nearest f32
\* value, a tie going to the even significand
round_f32(v) ==
    LET a == Abs(v)
        u == ulp(a)
        lo == (a \div u) * u
        up == IF 2 * (a - lo) > u \/ (2 * (a - lo) = u /\ (lo \div u) % 2 = 1)
              THEN lo + u ELSE lo
    IN  IF v < 0 THEN 0 - up ELSE up

\* x % rhs on f32: the exact remainder, with the sign of x
f32_rem(x, rhs) == IF x < 0 THEN 0 - ((0 - x) % rhs) ELSE x % rhs

\* x.rem_euclid(rhs) on f32: r = x % rhs, and r + |rhs| when r is negative
f32_rem_euclid(x, rhs) ==
    LET r == f32_rem(x, rhs)
    IN  IF r < 0 THEN round_f32(r + Abs(rhs)) ELSE r

\* rotation of GlobalTransform::from_root(local)
from_root_rotation(local) == f32_rem_euclid(local, FullTurn)

\* rotation of GlobalTransform::from_local(parent, local)
from_local_rotation(parent, local) == f32_rem_euclid(round_f32(parent + local), FullTurn)

\* the smallest local rotations tried are -MaxTiny..MaxTiny units
MaxTiny == 3
\* a chain root -> A -> B composes MaxChain times below its root
MaxChain == 2

\* local rotations, all of them f32 values: next to zero, next to a full
\* turn, quarter turns of both signs, two turns
RotationSamples ==
    ((0 - MaxTiny)..MaxTiny)
    \cup {FullTurn - 4, FullTurn, FullTurn + 4, 0 - FullTurn, 2 * FullTurn,
          0 - 90 * Degree, 270 * Degree, 0 - 450 * Degree}

\* the world rotation of a root is written
FromRoot(local) ==
    /\ op' = [name |-> "from_root", parent |-> 0, local |-> local, depth |-> 0,
              returned |-> from_root_rotation(local)]
    /\ UNCHANGED <<cells, entities, last_rect, found>>
    /\ UNCHANGED tvars
    /\ UNCHANGED wvars

\* the world rotation of a child of the entity written last is written
FromLocal(local) ==
    /\ op.name \in {"from_root", "from_local"}
    /\ op.depth < MaxChain
    /\ op' = [name |-> "from_local", parent |-> op.returned, local |-> local,
              depth |-> op.depth + 1,
              returned |-> from_local_rotation(op.returned, local)]
    /\ UNCHANGED <<cells, entities, last_rect, found>>
    /\ UNCHANGED tvars
    /\ UNCHANGED wvars

NextRotation ==
    \/ \E local \in RotationSamples : FromRoot(local)
    \/ \E local \in RotationSamples : FromLocal(local)

\* the rotations written down a chain of the hierarchy
SpecRotation == InitIndexOnly /\ [][NextRotation]_vars

\* ------------------------------------- three entities in shared buckets
\* a third entity, so that a bucket can hold two entities besides the one moved
BucketEntity == Entity \cup {"e3"}

\* the rectangles of one row of cells
RowRects == {r \in Rectangle : r.y = 0 /\ r.height = 0}

InitBuckets ==
    /\ cells = SpatialHash_new.cells
    /\ entities = SpatialHash_new.entities
    /\ last_rect = [e \in BucketEntity |-> NoRect]
    /\ op = [name |-> "new", entity |-> "none", outcome |-> "returned",
             effect |-> "none", inverted |-> FALSE, repeat |-> FALSE]
    /\ found = {}
    /\ NoHierarchy
    /\ NoWorld

NextBuckets ==
    \/ \E e \in BucketEntity, rect \in RowRects : Insert(e, rect)
    \/ \E e \in BucketEntity, rect \in RowRects : Update(e, rect)
    \/ \E rect \in RowRects : Query(rect)

\* the index used by three entities along one row
SpecBuckets == InitBuckets /\ [][NextBuckets]_vars

\* ----------------------------------------------------- specifications
NextHash ==
    \/ \E e \in Entity, rect \in Rectangle : Insert(e, rect)
    \/ \E e \in Entity, rect \in Rectangle : Update(e, rect)
    \/ \E rect \in Rectangle : Query(rect)

SpecHash == InitIndexOnly /\ [][NextHash]_vars

NextTransform ==
    \/ \E e \in HierEntity, t \in LocalSamples : SetTransform(e, t)
    \/ \E order \in Orders(ParentsQuery) : Propagate(order)

\* the hierarchy after spawning, beside an empty index
InitHierarchy == InitTransform /\ InitHash /\ NoWorld

\* the propagation pass of systems.rs
SpecTransform == InitHierarchy /\ [][NextTransform]_vars

NextTransformMain ==
    \/ \E e \in HierEntity, t \in LocalSamples : SetTransform(e, t)
    \/ \E order \in Orders(ChangedQuery) : PropagateMain(order)

\* the propagation pass of main.rs
SpecTransformMain == InitHierarchy /\ [][NextTransformMain]_vars

\* ======================================================================
\* Claims about the spatial index, checked under SpecHash
\* ======================================================================
ValidRect == {r \in Rectangle : debug_assert_rect(r)}
Registered == {e \in Entity : last_rect[e] # NoRect}
Other(e) == CHOOSE f \in Entity : f # e

\* the closed areas of two rectangles share at least one point
SharePoint(q, r) ==
    /\ q.x <= r.x + r.width /\ r.x <= q.x + q.width
    /\ q.y <= r.y + r.height /\ r.y <= q.y + q.height

\* C1: after any sequence of insert/update calls, the cell list recorded for
\* every entity is cell_coords_rect of the last rectangle passed for it.
C1_RecordIsLastRect ==
    /\ DOMAIN entities = Registered
    /\ \A e \in Registered : entities[e] = cell_coords_rect(last_rect[e])

\* an entity that was registered and then moved to other cells, next to another one
C1_Witness ==
    /\ op.name = "update" /\ op.effect \in {"moved", "moved_disjoint"}
    /\ Registered = Entity
    /\ Len(entities[op.entity]) > 1

\* C2: after insert(e, R) or update(e, R), query(Q) contains e for every
\* non-inverted Q whose closed area shares a point with the closed area of R.
C2_QueryFindsOverlapping ==
    \A e \in Registered : \A q \in ValidRect :
        SharePoint(q, last_rect[e]) => e \in query(hash, q)

\* e was just registered with R, and a query rectangle that starts exactly on
\* R's far edge, which lies on a cell boundary, finds it
C2_Witness ==
    /\ op.name \in {"insert", "update"} /\ op.outcome = "returned"
    /\ \E q \in ValidRect :
          LET r == last_rect[op.entity]
          IN  /\ q.x = r.x + r.width /\ r.width > 0
              /\ q.x % CellSize = 0
              /\ SharePoint(q, r)
              /\ op.entity \in query(hash, q)

\* C3: when update(e, R2) moves e to cells disjoint from those of its rectangle
\* R, then afterwards no query whose cell range lies inside the cells of R
\* contains e, and query(R2) contains e.
C3_DisjointMove ==
    [][\A e \in Entity :
          ( /\ op'.name = "update" /\ op'.entity = e /\ op'.outcome = "returned"
            /\ e \in Registered
            /\ Range(cell_coords_rect(last_rect[e]))
                  \cap Range(cell_coords_rect(last_rect'[e])) = {} )
          => ( /\ \A q \in Rectangle :
                     query_cells(q) \subseteq Range(cell_coords_rect(last_rect[e]))
                        => e \notin query(hash', q)
               /\ e \in query(hash', last_rect'[e]) )]_vars

\* an update has just moved an entity out of all its old cells, while the
\* other entity is registered too, and a query on its new rectangle finds it
C3_Witness ==
    /\ op.name = "update" /\ op.effect = "moved_disjoint"
    /\ Registered = Entity
    /\ op.entity \in query(hash, last_rect[op.entity])

\* a cell (cx, cy) lies in the range the claim gives for q, stated without \div:
\* floor(q.x / s) <= cx  iff  q.x < (cx + 1) * s, and
\* cx <= floor((q.x + w) / s)  iff  cx * s <= q.x + w
InClaimedRange(c, q) ==
    /\ q.x < (c[1] + 1) * CellSize /\ c[1] * CellSize <= q.x + q.width
    /\ q.y < (c[2] + 1) * CellSize /\ c[2] * CellSize <= q.y + q.height

\* C4: query(Q) is exactly the set of entities in the bucket of at least one
\* cell of Q's cell range; the result is a set, so each occurs in it once.
C4_QueryIsUnionOfBuckets ==
    \A q \in ValidRect :
        query(hash, q) =
            {e \in Entity : \E c \in DOMAIN cells :
                                InClaimedRange(c, q) /\ e \in Range(cells[c])}

\* a query has returned an entity that is registered in several cells of the
\* queried range
C4_Witness ==
    /\ op.name = "query" /\ op.outcome = "returned" /\ ~op.inverted
    /\ \E e \in found : \E q \in ValidRect :
          /\ query(hash, q) = found
          /\ Cardinality(query_cells(q) \cap Range(entities[e])) >= 2

\* C5: update(e, R) with cell_coords_rect(R) equal to the recorded cell list
\* leaves the cells map (content and order of every bucket) and the entities
\* map as they were.
C5_SameCellsIsNoOp ==
    \A e \in DOMAIN entities : \A r \in ValidRect :
        cell_coords_rect(r) = entities[e] => update(hash, e, r) = hash

\* update took the early return for a new rectangle in the same cells, for an
\* entity that is not the last of a bucket
C5_Witness ==
    /\ op.name = "update" /\ op.effect = "same" /\ ~op.repeat
    /\ \E c \in DOMAIN cells : cells[c] = <<op.entity, Other(op.entity)>>

\* C6: update(e, R); update(e, R) leaves the index in the state a single
\* update(e, R) leaves it in.
C6_UpdateIdempotent ==
    \A e \in Entity : \A r \in ValidRect :
        update(update(hash, e, r), e, r) = update(hash, e, r)

\* update was called again with the rectangle it was last called with
C6_Witness ==
    /\ op.name = "update" /\ op.outcome = "returned" /\ op.repeat
    /\ \E c \in DOMAIN cells : cells[c] = <<op.entity, Other(op.entity)>>

\* C7: the cells map holds no key with an empty bucket.
C7_NoEmptyBucket == \A c \in DOMAIN cells : cells[c] # <<>>

\* an update has just moved the only registered entity out of all its old
\* cells, and only its new cells are keys of the map
C7_Witness ==
    /\ op.name = "update" /\ op.effect = "moved_disjoint"
    /\ Registered = {op.entity}
    /\ DOMAIN cells = Range(entities[op.entity])

\* C8 (as claimed): query and update, called with a rectangle of negative
\* width or height, fail with the debug assertion.
C8_InvertedRectAsserts ==
    (op.name \in {"query", "update"} /\ op.inverted) => op.outcome = "debug_assert"

\* what holds: update asserts and leaves the index alone
C8_UpdateAsserts ==
    (op.name \in {"insert", "update"} /\ op.inverted) => op.outcome = "debug_assert"


\* ======================================================================
\* Claims about transform propagation, checked under SpecTransform (the pass
\* of systems.rs) and SpecTransformMain (the pass of main.rs)
\* ======================================================================
Roots == {e \in HierEntity : child_of[e] = NoParent}

\* e and all its ancestors up to a root carry both transforms
RECURSIVE ChainHasPair(_)
ChainHasPair(e) ==
    HasPair(e) /\ (child_of[e] = NoParent \/ ChainHasPair(child_of[e]))

\* world = compose(parent.world, local), spelled out as in the claim
Composed(e) ==
    LET w == global_transform[e]
        pw == global_transform[child_of[e]]
        l == transform[e]
    IN  /\ w.position = <<pw.position[1] + l.position[1], pw.position[2] + l.position[2]>>
        /\ w.rotation = (pw.rotation + l.rotation) % 360
        /\ w.scale = <<pw.scale[1] * l.scale[1], pw.scale[2] * l.scale[2]>>

\* C9 (as claimed): when a propagation pass ends, every entity that has a
\* parent and is reachable from a root through entities that all carry both
\* transforms has world = compose(parent.world, local), parent.world being the
\* parent's value at the end of the same pass.
C9_ChildrenComposed ==
    (pass.name # "none" /\ edits = 0) =>
        \A e \in HierEntity :
            (child_of[e] # NoParent /\ ChainHasPair(e)) => Composed(e)

\* C10: when a propagation pass ends, every entity without a parent has
\* world.position = local.position, world.scale = local.scale and
\* world.rotation = local.rotation mod 360, whatever its world was before.
C10_RootsFromLocal ==
    (pass.name # "none" /\ edits = 0) =>
        \A e \in Roots :
            HasPair(e) =>
                /\ global_transform[e].position = transform[e].position
                /\ global_transform[e].scale = transform[e].scale
                /\ global_transform[e].rotation = transform[e].rotation % 360
                /\ global_transform[e].rotation \in 0..359

\* a pass has just replaced the stale world transform of a root that has a
\* child and a negative local rotation
C10_Witness ==
    /\ pass.name = "systems" /\ edits = 0
    /\ \E e \in Roots :
          /\ HasPair(e) /\ e \in pass.rewritten
          /\ children[e] # <<>>
          /\ transform[e].rotation < 0

\* e and all its ancestors have zero rotation and unit scale
RECURSIVE ChainPlain(_)
ChainPlain(e) ==
    /\ transform[e] # Absent
    /\ transform[e].rotation = 0 /\ transform[e].scale = <<1, 1>>
    /\ (child_of[e] = NoParent \/ ChainPlain(child_of[e]))

\* the sum of the local positions of e and of all its ancestors
RECURSIVE SumOfLocals(_)
SumOfLocals(e) ==
    IF child_of[e] = NoParent THEN transform[e].position
    ELSE <<SumOfLocals(child_of[e])[1] + transform[e].position[1],
           SumOfLocals(child_of[e])[2] + transform[e].position[2]>>

\* the number of ancestors of e
RECURSIVE Depth(_)
Depth(e) == IF child_of[e] = NoParent THEN 0 ELSE 1 + Depth(child_of[e])

\* C11: when a propagation pass ends, every entity of a chain in which every
\* entity has zero rotation and unit scale has a world position equal to the
\* sum of the local positions of the entity and all of its ancestors.
C11_ChainPositionIsSum ==
    (pass.name # "none" /\ edits = 0) =>
        \A e \in HierEntity :
            (ChainHasPair(e) /\ ChainPlain(e)) =>
                global_transform[e].position = SumOfLocals(e)

\* a pass has just written the world position of the last entity of a chain
\* root -> A -> B of zero rotation and unit scale whose local positions are
\* not all the same
C11_Witness ==
    /\ pass.name = "systems" /\ edits = 0
    /\ \E e \in HierEntity :
          /\ Depth(e) = 2 /\ ChainHasPair(e) /\ ChainPlain(e)
          /\ e \in pass.rewritten
          /\ transform[e].position # transform[child_of[e]].position
          /\ global_transform[e].position = SumOfLocals(e)

\* C13: a pass skips an entity that is listed among a parent's children and
\* has no local/world transform pair, and still ends with every sibling of
\* the skipped entity that has both transforms at
\* world = compose(parent.world, local).
C13_SkipKeepsSiblings ==
    (pass.name # "none" /\ edits = 0) =>
        \A p \in HierEntity : \A c \in Range(children[p]) :
            (ChainHasPair(p) /\ ~HasPair(c)) =>
                /\ c \notin Range(pass.writes)
                /\ \A s \in Range(children[p]) :
                       HasPair(s) => (Composed(s) /\ s \in Range(pass.writes))

\* a pass has just ended in which a parent lists a child without the pair
\* after a sibling that has it, so the child was popped first and skipped,
\* and the sibling's world transform was rewritten
C13_Witness ==
    /\ pass.name = "systems" /\ edits = 0
    /\ \E p \in HierEntity :
          /\ ChainHasPair(p)
          /\ Len(children[p]) = 2
          /\ HasPair(children[p][1]) /\ ~HasPair(children[p][2])
          /\ children[p][1] \in pass.rewritten

\* ======================================================================
\* Claims about collision resolution, checked under SpecResolver (the pass
\* of systems.rs), SpecResolverMain (the pass of main.rs) and
\* SpecResolverTick (the pass of systems.rs and the propagation after it)
\* ======================================================================
\* the rectangle of a static collider (statics are not moved by the pass)
StaticRect(e) == collider_rect(global_transform[e], collider[e])

\* the movers with a collider, as the last pass left them
Resolved == Range(resolved.moving_rects)

\* the rectangle the mover m of the last pass started from
StartRect(m) ==
    (CHOOSE s \in Range(resolved.start) : s.entity = m.entity).rect

\* C14 (as claimed): at the end of a resolution pass no mover with a collider
\* has a resolved rectangle that overlaps the rectangle of a static collider
\* or of another mover with a collider.
C14_NoOverlapAfterPass ==
    resolved.name # "none" =>
        \A m \in Resolved :
            /\ \A e \in StaticsQuery : ~collides_rect(m.rect, StaticRect(e))
            /\ \A n \in Resolved :
                   n.entity # m.entity => ~collides_rect(m.rect, n.rect)

\* the statics the mover's rectangle overlaps once the X displacement is applied
HitAfterX(m) ==
    {e \in StaticsQuery :
        collides_rect([StartRect(m) EXCEPT !.x = @ + m.velocity[1]], StaticRect(e))}

\* C15 (as claimed): a single mover with velocity.x > 0 and velocity.y = 0
\* whose rectangle overlaps one static rectangle after the X displacement
\* ends with its right edge on the static's left edge.
C15_FlushWithStatic ==
    resolved.name # "none" =>
        \A m \in Resolved :
            ( /\ Cardinality(Resolved) = 1
              /\ m.velocity[1] > 0 /\ m.velocity[2] = 0
              /\ Cardinality(HitAfterX(m)) = 1 )
            => \A e \in HitAfterX(m) : m.rect.x + m.rect.width = StaticRect(e).x

Min(m, n) == IF m < n THEN m ELSE n
Max(m, n) == IF m < n THEN n ELSE m

\* the extent of the common part of two rectangles along each axis
OverlapX(p, o) == Min(p.x + p.width, o.x + o.width) - Max(p.x, o.x)
OverlapY(p, o) == Min(p.y + p.height, o.y + o.height) - Max(p.y, o.y)

\* the last pass had exactly two movers with a collider, both at zero
\* velocity, of equal size, overlapping each other and no static at its start
TwoAtRestOverlapped ==
    /\ resolved.name # "none"
    /\ Len(resolved.start) = 2
    /\ \A i \in 1..2 :
          /\ resolved.start[i].velocity = Vector2(0, 0)
          /\ \A e \in StaticsQuery :
                 ~collides_rect(resolved.start[i].rect, StaticRect(e))
    /\ resolved.start[1].rect.width = resolved.start[2].rect.width
    /\ resolved.start[1].rect.height = resolved.start[2].rect.height
    /\ collides_rect(resolved.start[1].rect, resolved.start[2].rect)

\* the displacement of the i-th mover of the last pass
Displacement(i) ==
    Vector2(resolved.moving_rects[i].rect.x - resolved.start[i].rect.x,
            resolved.moving_rects[i].rect.y - resolved.start[i].rect.y)

\* C16 (as claimed): two overlapping zero-velocity movers of equal size are
\* separated along the axis of the smaller overlap, each of the two is moved,
\* and the two displacements add up to the overlap on that axis.
C16_BothMoversSeparate ==
    TwoAtRestOverlapped =>
        LET p == resolved.start[1].rect
            o == resolved.start[2].rect
        IN  /\ Displacement(1) # Vector2(0, 0)
            /\ Displacement(2) # Vector2(0, 0)
            /\ IF OverlapX(p, o) < OverlapY(p, o)
               THEN Abs(Displacement(1)[1]) + Abs(Displacement(2)[1]) = OverlapX(p, o)
               ELSE Abs(Displacement(1)[2]) + Abs(Displacement(2)[2]) = OverlapY(p, o)

\* C16 (amended): the mover enumerated first is moved by the whole overlap
\* along the axis of the smaller overlap (Y when the overlaps are equal), away
\* from the other's center (to the negative side when the centers coincide on
\* that axis); the other mover is not moved; afterwards they do not overlap.
C16_FirstMoverSeparates ==
    TwoAtRestOverlapped =>
        LET p == resolved.start[1].rect
            o == resolved.start[2].rect
        IN  /\ Displacement(2) = Vector2(0, 0)
            /\ IF OverlapX(p, o) < OverlapY(p, o)
               THEN Displacement(1) =
                       Vector2(IF p.x > o.x THEN OverlapX(p, o) ELSE 0 - OverlapX(p, o), 0)
               ELSE Displacement(1) =
                       Vector2(0, IF p.y > o.y THEN OverlapY(p, o) ELSE 0 - OverlapY(p, o))
            /\ ~collides_rect(resolved.moving_rects[1].rect,
                              resolved.moving_rects[2].rect)

\* a pass has just separated two such movers along X, the first to the right
C16_Witness ==
    /\ TwoAtRestOverlapped
    /\ OverlapX(resolved.start[1].rect, resolved.start[2].rect)
          < OverlapY(resolved.start[1].rect, resolved.start[2].rect)
    /\ Displacement(1)[1] > 0

\* the tick has ended: the resolution pass and the propagation pass after it
TickEnded == resolved.name # "none" /\ pass.name # "none"

\* delta of the mover m: final resolved position - original rectangle position
Delta(m) == Vector2(m.rect.x - StartRect(m).x, m.rect.y - StartRect(m).y)

\* local.position - (world.position - parent.world.position), for given stores
ParentOffset(e, t, g) ==
    Vector2(t[e].position[1] - (g[e].position[1] - g[child_of[e]].position[1]),
            t[e].position[2] - (g[e].position[2] - g[child_of[e]].position[2]))

\* C17 (as claimed): when the tick has ended, the local position and the
\* world position of every mover with a collider have each changed by delta,
\* and for a mover with a parent local - (world - parent.world) is what it was.
C17_WorldAndLocalMovedByDelta ==
    TickEnded =>
        \A m \in Resolved :
            /\ transform[m.entity].position
                  = VAdd(resolved.before[m.entity].position, Delta(m))
            /\ global_transform[m.entity].position
                  = VAdd(resolved.world_before[m.entity].position, Delta(m))
            /\ child_of[m.entity] # NoParent =>
                  ParentOffset(m.entity, transform, global_transform)
                    = ParentOffset(m.entity, resolved.before, resolved.world_before)

\* the movers of the last pass that have a Velocity and no Collider
Colliderless ==
    {e \in HierEntity : /\ velocity[e] # NoVelocity /\ collider[e] = Absent
                        /\ resolved.before[e] # Absent
                        /\ resolved.world_before[e] # Absent}

\* the world the last pass started from, with the Velocity of e taken away
\* (e then is neither a mover nor, having no Collider, a static)
WorldBeforeWithout(e) ==
    [transform |-> resolved.before,
     global_transform |-> resolved.world_before,
     velocity |-> [f \in HierEntity |-> IF f = e THEN NoVelocity ELSE velocity[f]],
     collider |-> collider,
     on_screen |-> on_screen]

\* the order in which the last pass enumerated its movers with a collider
ResolvedOrder == [i \in 1..Len(resolved.start) |-> resolved.start[i].entity]

\* C18: a mover that has a Velocity and no Collider ends the pass at
\* old local position + velocity, is not in moving_rects, and the other
\* movers are resolved exactly as in a world in which it is not a mover.
C18_ColliderlessMoverJustMoves ==
    resolved.name # "none" =>
        \A e \in Colliderless :
            /\ transform[e].position
                  = VAdd(resolved.before[e].position, velocity[e])
            /\ \A m \in Resolved : m.entity # e
            /\ \E sorder \in Orders(StaticsQuery) :
                  resolved.moving_rects
                    = apply_velocity_system(WorldBeforeWithout(e), hash,
                                            ResolvedOrder, sorder).moving_rects

\* a point lies in the open interior of a rectangle
Inside(pt, r) ==
    /\ r.x < pt[1] /\ pt[1] < r.x + r.width
    /\ r.y < pt[2] /\ pt[2] < r.y + r.height

\* a pass has just moved a mover without a collider whose world position was
\* inside a static collider and inside the rectangle of a mover with a
\* collider, and that mover was resolved too
C18_Witness ==
    /\ resolved.name = "systems"
    /\ \E e \in Colliderless :
          /\ velocity[e] # Vector2(0, 0)
          /\ \E st \in StaticsQuery :
                 Inside(resolved.world_before[e].position, StaticRect(st))
          /\ \E m \in Resolved :
                 /\ Inside(resolved.world_before[e].position, StartRect(m))
                 /\ m.rect # StartRect(m)
          /\ transform[e].position # resolved.before[e].position

\* ======================================================================
\* Claims about visibility culling, checked under SpecCuller
\* ======================================================================
\* the rectangle the last culling pass queried
CulledRect == camera_rect(culled.camera)

\* C19: after a culling pass and its commands, the entities that carry
\* OnScreen are exactly the entities the index returns for the camera
\* rectangle, whatever was tagged before.
C19_TaggedIsQueryResult ==
    culled.name # "none" => on_screen = query(hash, CulledRect)

\* a pass has just tagged an entity that was not tagged and untagged one that was
C19_Witness ==
    /\ culled.name # "none"
    /\ on_screen \ culled.before # {}
    /\ culled.before \ on_screen # {}

\* the projections of two rectangles share no point, on the X axis and on
\* the Y axis
ApartOnBothAxes(q, r) ==
    /\ (r.x + r.width < q.x \/ q.x + q.width < r.x)
    /\ (r.y + r.height < q.y \/ q.y + q.height < r.y)

\* C20 (as claimed): after a culling pass no entity whose stored rectangle
\* lies strictly outside the camera rectangle is marked OnScreen.
C20_OutsideNotMarked ==
    culled.name # "none" =>
        \A e \in Registered :
            ApartOnBothAxes(CulledRect, last_rect[e]) => e \notin on_screen

\* C20 (amended): after a culling pass every marked entity is registered and
\* its stored rectangle occupies a cell of the camera rectangle's cell range,
\* floor(min / cell_size)..floor(max / cell_size) on each axis.
C20_MarkedShareCell ==
    culled.name # "none" =>
        \A e \in on_screen :
            /\ e \in Registered
            /\ \E c \in Range(cell_coords_rect(last_rect[e])) :
                   InClaimedRange(c, CulledRect)

\* a pass has just left unmarked an entity that was marked before and whose
\* cells are all outside the camera's cell range, and marked another one
C20_Witness ==
    /\ culled.name # "none"
    /\ on_screen # {}
    /\ \E e \in Registered :
          /\ e \in culled.before /\ e \notin on_screen
          /\ \A c \in Range(cell_coords_rect(last_rect[e])) :
                 ~InClaimedRange(c, CulledRect)

\* the rectangle r lies fully inside the rectangle q (borders included)
FullyInside(q, r) ==
    /\ q.x <= r.x /\ r.x + r.width <= q.x + q.width
    /\ q.y <= r.y /\ r.y + r.height <= q.y + q.height

\* C21: after a culling pass, every entity registered in the index whose
\* stored rectangle lies fully inside the camera rectangle is marked OnScreen.
C21_InsideIsMarked ==
    culled.name # "none" =>
        \A e \in Registered :
            FullyInside(CulledRect, last_rect[e]) => e \in on_screen

\* a pass has just marked an entity that was not marked and lies fully inside
\* the camera rectangle, touching its right and bottom borders
C21_Witness ==
    /\ culled.name # "none"
    /\ \E e \in Registered :
          /\ FullyInside(CulledRect, last_rect[e])
          /\ last_rect[e].x + last_rect[e].width = CulledRect.x + CulledRect.width
          /\ last_rect[e].y + last_rect[e].height = CulledRect.y + CulledRect.height
          /\ e \notin culled.before
          /\ e \in on_screen

\* ======================================================================
\* Claims about the fixed-step loop, checked under SpecTick
\* ======================================================================
\* C12: within a tick, every entity that has a Transform and no
\* GlobalTransform when the tick begins holds GlobalTransform =
\* from_root(Transform) before update_global_transforms_system first runs,
\* and from that pass on no schedule of the tick starts with an entity that
\* has a Transform and no GlobalTransform.
C12_EnsuredBeforePropagation ==
    /\ tick.phase = "pre" =>
          \A e \in tick.missing : global_transform[e] = from_root(transform[e])
    /\ tick.phase \in {"pre", "physics", "post", "last"} =>
          MissingGlobal(transform, global_transform) = {}

\* the first propagation pass of a tick is about to run and a child entity
\* with a rotation outside [0, 360) had no GlobalTransform when the tick began
C12_Witness ==
    /\ tick.phase = "pre"
    /\ \E e \in tick.missing :
          /\ child_of[e] # NoParent
          /\ transform[e].rotation # transform[e].rotation % 360

\* ======================================================================
\* Claims about the stages of a tick, checked under SpecTickIndex
\* ======================================================================
\* every run of system y logged in the tick comes after a run of system x
RunsAfter(x, y) ==
    \A j \in DOMAIN tick.log :
        tick.log[j] = y => \E i \in 1..(j - 1) : tick.log[i] = x

\* a tick has just ended
TickDone == tick.phase = "first" /\ tick.count > 0

\* C22: in every tick the stages run in the order transform propagation,
\* collision resolution, spatial-index update, visibility culling, and every
\* index update of the tick is done before the culling query is issued: the
\* index the query reads is the index the tick ends with.
C22_StagesInOrder ==
    /\ RunsAfter("update_global_transforms_system", "apply_velocity_system")
    /\ RunsAfter("apply_velocity_system", "update_spatial_hash_system")
    /\ RunsAfter("update_spatial_hash_system", "update_on_screen_system")
    /\ \A i, j \in DOMAIN tick.log :
          (tick.log[i] = "update_on_screen_system"
              /\ tick.log[j] = "update_spatial_hash_system") => j < i
    /\ TickDone =>
          /\ tick.queried = entities
          /\ \E i \in DOMAIN tick.log : tick.log[i] = "update_on_screen_system"

\* a tick has ended in which the index update registered an entity that the
\* culling query then returned
C22_Witness ==
    /\ TickDone
    /\ \E e \in DOMAIN tick.queried : e \in on_screen /\ e \notin culled.before

\* the entity has a world transform and a Rectangle or Circle sprite, and its
\* world transform changed during the tick that has just ended
MovedSprite(e) ==
    /\ global_transform[e] # Absent
    /\ sprite[e] # Absent
    /\ sprite[e].kind \in {"Rectangle", "Circle"}
    /\ e \in tick.world_changed

\* C23: when the culling query of a tick is issued, the index record of every
\* entity with a world transform and a Rectangle or Circle sprite whose world
\* transform changed during the tick equals cell_coords_rect of the
\* rectangle derived from its current world transform.
C23_RecordsFollowWorld ==
    TickDone =>
        \A e \in HierEntity :
            MovedSprite(e) =>
                /\ e \in DOMAIN tick.queried
                /\ tick.queried[e] =
                       cell_coords_rect(sprite_rect(global_transform[e], sprite[e]))

\* ======================================================================
\* Claims about the order of iteration, checked under SpecResolver
\* ======================================================================
\* the world the last resolution pass started from
WorldBefore ==
    [transform |-> resolved.before,
     global_transform |-> resolved.world_before,
     velocity |-> velocity,
     collider |-> collider,
     on_screen |-> on_screen]

\* C24 (as claimed): the positions a resolution pass leaves depend on the
\* component state and the index only: a run from the same state that
\* iterates the static candidates in any other order ends with the same
\* Transform for every entity.
C24_StaticOrderIrrelevant ==
    resolved.name # "none" =>
        \A sorder \in Orders(StaticsQuery) :
            apply_velocity_system(WorldBefore, hash, ResolvedOrder, sorder).transform
                = transform

\* ======================================================================
\* Claims about cell_coords, checked under SpecCellCoords
\* ======================================================================
\* c is the floor of x / cell_size
IsFloor(c, x, cell_size) == c * cell_size <= x /\ x < (c + 1) * cell_size

\* C25: cell_coords(x, y) is (floor(x / cell_size), floor(y / cell_size)),
\* rounded toward negative infinity; with cell_size 10, (5,5) maps to (0,0),
\* (15,5) to (1,0) and (-5,-5) to (-1,-1).
C25_CellCoordsIsFloor ==
    op.name = "cell_coords" =>
        /\ IsFloor(op.returned[1], op.x, op.cell_size)
        /\ IsFloor(op.returned[2], op.y, op.cell_size)
        /\ (op.cell_size = 10 /\ op.x = 5 /\ op.y = 5) => op.returned = <<0, 0>>
        /\ (op.cell_size = 10 /\ op.x = 15 /\ op.y = 5) => op.returned = <<1, 0>>
        /\ (op.cell_size = 10 /\ op.x = 0 - 5 /\ op.y = 0 - 5)
              => op.returned = <<0 - 1, 0 - 1>>

\* cell_coords(-5, -5) has been called on an index of cell size 10
C25_Witness ==
    /\ op.name = "cell_coords"
    /\ op.cell_size = TestCellSize /\ op.x = 0 - 5 /\ op.y = 0 - 5
    /\ op.returned = <<0 - 1, 0 - 1>>

\* ======================================================================
\* Claims about degenerate rectangles, checked under SpecHash
\* ======================================================================
\* C26: for every rectangle with width >= 0 and height >= 0, zero included,
\* cell_coords_rect returns at least one cell, so an entity that insert or
\* update accepted is recorded with at least one cell and is in the bucket of
\* each, and a query scans at least one cell.
C26_AtLeastOneCell ==
    /\ \A r \in ValidRect :
          /\ Len(cell_coords_rect(r)) >= 1
          /\ Cardinality(query_cells(r)) >= 1
    /\ \A e \in Registered :
          /\ e \in DOMAIN entities
          /\ Len(entities[e]) >= 1
          /\ \A i \in DOMAIN entities[e] :
                /\ entities[e][i] \in DOMAIN cells
                /\ e \in Range(cells[entities[e][i]])

\* an update has just moved an entity to a rectangle of width 0 and height 0,
\* and the index records it in exactly one cell
C26_Witness ==
    /\ op.name = "update" /\ op.outcome = "returned" /\ op.effect = "moved"
    /\ last_rect[op.entity].width = 0 /\ last_rect[op.entity].height = 0
    /\ Len(entities[op.entity]) = 1

\* ======================================================================
\* Claims about the order of a propagation pass
\* ======================================================================
\* C27 (as claimed): within one propagation pass the world transform of a
\* non-root entity is written only after that of its parent has been written
\* in the same pass, and it is computed from the parent value the pass wrote.
C27_ParentWrittenFirst ==
    (pass.name # "none" /\ edits = 0) =>
        \A j \in DOMAIN pass.writes :
            LET e == pass.writes[j]
            IN  child_of[e] # NoParent =>
                  /\ \E i \in 1..(j - 1) : pass.writes[i] = child_of[e]
                  /\ global_transform[e] =
                         from_local(global_transform[child_of[e]], transform[e])

\* the number of times the last pass wrote the world transform of e
TimesWritten(e) == Cardinality({j \in DOMAIN pass.writes : pass.writes[j] = e})

\* C28: on a forest without cycles a propagation pass (systems.rs) ends with
\* an empty work stack, whatever the order of its roots, and every entity
\* reachable from a root through entities that carry both transforms has its
\* world transform written exactly once during the pass.
C28_TerminatesWritingOnce ==
    /\ \A order \in Orders(ParentsQuery) :
          update_global_transforms_system(order).stack = <<>>
    /\ pass.name # "none" =>
          \A e \in HierEntity : ChainHasPair(e) => TimesWritten(e) = 1

\* a pass has written all three entities, which form a chain or a parent
\* with two children
C28_Witness ==
    /\ pass.name # "none"
    /\ Len(pass.writes) = 3
    /\ \A e \in HierEntity : ChainHasPair(e)
    /\ \E e \in HierEntity : Len(children[e]) = 2 \/
          (child_of[e] # NoParent /\ child_of[child_of[e]] # NoParent)

\* ======================================================================
\* Claims about the steps of the resolver, checked under SpecResolver
\* ======================================================================
\* the rectangles of the other movers as the i-th mover of the last pass saw
\* them: resolved for those enumerated before it, as at the start for the rest
OthersSeenBy(i) ==
    [j \in 1..(Len(resolved.start) - 1) |->
        IF j < i THEN resolved.moving_rects[j].rect
        ELSE resolved.start[j + 1].rect]

\* the static candidates of the i-th mover, iterated in the order sorder
StaticsSeenBy(i, sorder) ==
    static_rects(World, hash, resolved.start[i].rect, sorder)

\* the rectangle of the i-th mover after the X displacement and the X clamps
\* against the statics, then against the other movers
AfterXPhase(i, sorder) ==
    LET m == resolved.start[i]
    IN  clamp_x_all(clamp_x_all([m.rect EXCEPT !.x = @ + m.velocity[1]],
                                m.velocity, StaticsSeenBy(i, sorder)),
                    m.velocity, OthersSeenBy(i))

\* the Y displacement and the Y clamps applied to the rectangle r
AfterYPhase(i, sorder, r) ==
    LET m == resolved.start[i]
    IN  clamp_y_all(clamp_y_all([r EXCEPT !.y = @ + m.velocity[2]],
                                m.velocity, StaticsSeenBy(i, sorder)),
                    m.velocity, OthersSeenBy(i))

\* C29: when a mover with nonzero velocity is resolved, the X displacement
\* and every X clamp are applied before the Y displacement, and the Y phase
\* leaves the x coordinate alone: the resolved rectangle is the Y phase
\* applied to the outcome of the whole X phase, and has that outcome's x.
C29_XBeforeY ==
    resolved.name # "none" =>
        \A i \in DOMAIN resolved.start :
            resolved.start[i].velocity # Vector2(0, 0) =>
                \E sorder \in Orders(StaticsQuery) :
                    /\ resolved.moving_rects[i].rect.x = AfterXPhase(i, sorder).x
                    /\ resolved.moving_rects[i].rect =
                           AfterYPhase(i, sorder, AfterXPhase(i, sorder))

\* a mover moving on both axes was clamped on the X axis and on the Y axis
C29_Witness ==
    /\ resolved.name # "none"
    /\ \E i \in DOMAIN resolved.start :
          LET m == resolved.start[i]
              r == resolved.moving_rects[i].rect
          IN  /\ m.velocity[1] # 0 /\ m.velocity[2] # 0
              /\ r.x # m.rect.x + m.velocity[1]
              /\ r.y # m.rect.y + m.velocity[2]

\* the other movers as the i-th mover of the last pass saw them: every mover
\* but itself, those enumerated before it as resolved, the rest as at the start
OtherMoversSeenBy(i) ==
    [j \in 1..(Len(resolved.start) - 1) |->
        IF j < i THEN resolved.moving_rects[j] ELSE resolved.start[j + 1]]

\* C30: mover i is resolved against every other mover with a collider and
\* never against itself, the movers enumerated before it with their resolved
\* rectangle and the movers after it with their rectangle from the start of
\* the pass, and its step writes its own rectangle only.
C30_OthersAsSeenAtItsTurn ==
    resolved.name # "none" =>
        /\ Len(resolved.moving_rects) = Len(resolved.start)
        /\ \A i \in DOMAIN resolved.start :
              /\ resolved.moving_rects[i].entity = resolved.start[i].entity
              /\ resolved.moving_rects[i].velocity = resolved.start[i].velocity
              /\ \E sorder \in Orders(StaticsQuery) :
                    resolved.moving_rects[i].rect =
                        resolve_mover(resolved.start[i].rect,
                                      resolved.start[i].velocity,
                                      StaticsSeenBy(i, sorder),
                                      OtherMoversSeenBy(i))

\* the first of two movers was moved by its step, and the second was resolved
\* against the first's resolved rectangle: against the rectangle the first
\* started from, its own step would have ended elsewhere
C30_Witness ==
    /\ resolved.name # "none"
    /\ Len(resolved.start) = 2
    /\ resolved.moving_rects[1].rect # resolved.start[1].rect
    /\ \A sorder \in Orders(StaticsQuery) :
          resolved.moving_rects[2].rect #
              resolve_mover(resolved.start[2].rect, resolved.start[2].velocity,
                            StaticsSeenBy(2, sorder), <<resolved.start[1]>>)

\* the other movers the i-th mover saw whose velocity is zero on both axes
AtRestSeenBy(i) ==
    LET AtRest(m) == m.velocity = Vector2(0, 0)
    IN  SelectSeq(OtherMoversSeenBy(i), AtRest)

\* C31: a zero-velocity mover is never displaced by a mover whose velocity is
\* nonzero, even when their rectangles overlap: it is resolved as if the
\* moving movers were not there, and it stays where it is when it overlaps
\* neither a static nor another zero-velocity mover.
C31_MovingNeverPushesResting ==
    resolved.name # "none" =>
        \A i \in DOMAIN resolved.start :
            resolved.start[i].velocity = Vector2(0, 0) =>
                /\ \E sorder \in Orders(StaticsQuery) :
                      resolved.moving_rects[i].rect =
                          resolve_mover(resolved.start[i].rect, Vector2(0, 0),
                                        StaticsSeenBy(i, sorder), AtRestSeenBy(i))
                /\ ((\A e \in StaticsQuery :
                         ~collides_rect(resolved.start[i].rect, StaticRect(e)))
                     /\ (\A k \in DOMAIN AtRestSeenBy(i) :
                         ~collides_rect(resolved.start[i].rect, AtRestSeenBy(i)[k].rect)))
                    => resolved.moving_rects[i].rect = resolved.start[i].rect

\* a zero-velocity mover overlapped, at its turn, a mover with nonzero
\* velocity and nothing else, and was left where it was
C31_Witness ==
    /\ resolved.name # "none"
    /\ \E i \in DOMAIN resolved.start :
          /\ resolved.start[i].velocity = Vector2(0, 0)
          /\ \E k \in DOMAIN OtherMoversSeenBy(i) :
                /\ OtherMoversSeenBy(i)[k].velocity # Vector2(0, 0)
                /\ collides_rect(resolved.start[i].rect, OtherMoversSeenBy(i)[k].rect)
          /\ \A e \in StaticsQuery :
                ~collides_rect(resolved.start[i].rect, StaticRect(e))
          /\ resolved.moving_rects[i].rect = resolved.start[i].rect

\* the entities the index returns for the rectangle the i-th mover has when
\* its step starts
QueriedBy(i) == query(hash, resolved.start[i].rect)

\* the rectangles, in the order sorder, of the entities of QueriedBy(i) that
\* have a Collider and a world transform and no Velocity
QueriedStatics(i, sorder) ==
    LET IsStatic(e) == /\ e \in QueriedBy(i)
                       /\ collider[e] # Absent
                       /\ global_transform[e] # Absent
                       /\ velocity[e] = NoVelocity
        es == SelectSeq(sorder, IsStatic)
    IN  [k \in 1..Len(es) |-> StaticRect(es[k])]

\* C32: a static collider that is not in the result of the query made with
\* the mover's rectangle at the start of its step has no effect on the
\* mover's resolved rectangle, and an entity of the result that has a
\* Velocity or no Collider is not a static candidate: the step is resolved
\* against the static colliders of the query result only.
C32_OnlyQueriedStatics ==
    resolved.name # "none" =>
        \A i \in DOMAIN resolved.start :
            \E sorder \in Orders(HierEntity) :
                resolved.moving_rects[i].rect =
                    resolve_mover(resolved.start[i].rect, resolved.start[i].velocity,
                                  QueriedStatics(i, sorder), OtherMoversSeenBy(i))

\* a mover's step ended inside a static collider that its query did not
\* return, and the query returned a mover beside a static collider
C32_Witness ==
    /\ resolved.name # "none"
    /\ \E i \in DOMAIN resolved.start :
          /\ \E e \in StaticsQuery \ QueriedBy(i) :
                collides_rect(resolved.moving_rects[i].rect, StaticRect(e))
          /\ \E e \in QueriedBy(i) : velocity[e] # NoVelocity
          /\ \E e \in QueriedBy(i) : e \in StaticsQuery

\* ======================================================================
\* Claims about what the index operations leave alone, checked under SpecHash
\* ======================================================================
\* C33: query never modifies the index: the cells map and the entities map
\* are the same before and after it, so every query returns after it what it
\* returned before it.
C33_QueryReadsOnly ==
    [][op'.name = "query" =>
          /\ cells' = cells
          /\ entities' = entities
          /\ \A r \in ValidRect :
                query([cells |-> cells', entities |-> entities'], r) = query(hash, r)]_vars

\* a query has just returned both entities
C33_Witness ==
    /\ op.name = "query" /\ op.outcome = "returned"
    /\ found = Entity

\* how many times e occurs in a bucket
Occurrences(bucket, e) == Cardinality({i \in DOMAIN bucket : bucket[i] = e})

\* every cell a rectangle of the model can touch
AllCells == UNION {Range(cell_coords_rect(r)) : r \in ValidRect}

\* C35: the two maps agree: e is in the bucket of cell c exactly when c is in
\* the cell list recorded for e, and then e is in that bucket exactly once.
C35_MapsAgree ==
    /\ DOMAIN cells \subseteq AllCells
    /\ \A e \in Entity : \A c \in AllCells :
          LET n == IF c \in DOMAIN cells THEN Occurrences(cells[c], e) ELSE 0
          IN  /\ n > 0 <=> (e \in DOMAIN entities /\ c \in Range(entities[e]))
              /\ n <= 1

\* an update has just moved an entity that keeps some of its old cells, and
\* it shares a bucket with the other entity
C35_Witness ==
    /\ op.name = "update" /\ op.effect = "moved"
    /\ \E c \in DOMAIN cells : Range(cells[c]) = Entity

\* the bucket of cell c in the map cm, empty when c is not a key
BucketOf(cm, c) == IF c \in DOMAIN cm THEN cm[c] ELSE <<>>

\* C36: update(e, R) for an entity e without a record leaves the index as
\* insert(e, R) would: e is appended to the bucket of every cell of
\* cell_coords_rect(R), that cell list is recorded for e, and no bucket and
\* no record changes otherwise.
C36_FirstUpdateIsInsert ==
    [][\A e \in Entity :
          ( /\ op'.name = "update" /\ op'.entity = e /\ op'.outcome = "returned"
            /\ e \notin DOMAIN entities )
          => LET cs == cell_coords_rect(last_rect'[e])
             IN  /\ [cells |-> cells', entities |-> entities'] = insert(hash, e, last_rect'[e])
                 /\ DOMAIN entities' = DOMAIN entities \cup {e}
                 /\ entities'[e] = cs
                 /\ \A f \in DOMAIN entities : entities'[f] = entities[f]
                 /\ DOMAIN cells' = DOMAIN cells \cup Range(cs)
                 /\ \A c \in DOMAIN cells' :
                       cells'[c] = IF c \in Range(cs)
                                   THEN Append(BucketOf(cells, c), e)
                                   ELSE cells[c]]_vars

\* update has just registered an entity for the first time, behind the other
\* entity in one bucket and alone in another
C36_Witness ==
    /\ op.name = "update" /\ op.effect = "first" /\ op.outcome = "returned"
    /\ \E c \in DOMAIN cells : cells[c] = <<Other(op.entity), op.entity>>
    /\ \E c \in DOMAIN cells : cells[c] = <<op.entity>>

\* C37: no operation removes a record: an entity that has one stays a key of
\* the entities map after every call, and after a call made for another entity
\* or a query its cell list is the same, it is still in the bucket of each of
\* these cells, and query on its last rectangle still returns it.
C37_RecordsAreKept ==
    [][\A e \in DOMAIN entities :
          /\ e \in DOMAIN entities'
          /\ op'.entity # e =>
                /\ entities'[e] = entities[e]
                /\ last_rect'[e] = last_rect[e]
                /\ \A c \in Range(entities[e]) :
                      c \in DOMAIN cells' /\ e \in Range(cells'[c])
                /\ e \in query([cells |-> cells', entities |-> entities'],
                               last_rect[e])]_vars

\* an update has just moved an entity, and the other entity, registered
\* before, is alone in one of its buckets and is still found by a query
C37_Witness ==
    /\ op.name = "update" /\ op.effect \in {"moved", "moved_disjoint"}
    /\ Registered = Entity
    /\ \E c \in Range(entities[Other(op.entity)]) :
          /\ cells[c] = <<Other(op.entity)>>
          /\ c \in Range(cell_coords_rect(last_rect[Other(op.entity)]))
          /\ c \notin Range(entities[op.entity])
    /\ Other(op.entity) \in query(hash, last_rect[Other(op.entity)])

\* ======================================================================
\* Claims about buckets shared by three entities, checked under SpecBuckets
\* ======================================================================
\* the bucket as the entities other than e see it
Without(bucket, e) == SelectSeq(bucket, LAMBDA x : x # e)

\* the cells whose bucket in cm contains f
CellsHolding(cm, f) == {c \in DOMAIN cm : f \in Range(cm[c])}

\* C38: update(e, R) changes only e's membership: every other entity keeps its
\* recorded cell list and the set of cells whose bucket holds it, and the
\* other entities of every bucket keep their order.
C38_UpdateTouchesOnlyItsEntity ==
    [][\A e \in BucketEntity :
          (op'.name = "update" /\ op'.entity = e /\ op'.outcome = "returned")
          => /\ \A f \in BucketEntity \ {e} :
                   /\ f \in DOMAIN entities' <=> f \in DOMAIN entities
                   /\ f \in DOMAIN entities => entities'[f] = entities[f]
                   /\ CellsHolding(cells', f) = CellsHolding(cells, f)
             /\ \A c \in DOMAIN cells \cup DOMAIN cells' :
                   Without(BucketOf(cells', c), e) = Without(BucketOf(cells, c), e)]_vars

\* an update has just moved an entity, one bucket holds the two other
\* entities without it and another holds all three, the moved one last
C38_Witness ==
    /\ op.name = "update" /\ op.effect \in {"moved", "moved_disjoint"}
    /\ \E c \in DOMAIN cells :
          /\ Len(cells[c]) = 2
          /\ Range(cells[c]) = BucketEntity \ {op.entity}
    /\ \E c \in DOMAIN cells :
          /\ Len(cells[c]) = 3
          /\ cells[c][3] = op.entity

\* ======================================================================
\* Claims about what the resolution pass leaves alone, checked under SpecResolver
\* ======================================================================
\* C39: the resolution pass changes neither the local nor the world transform
\* of an entity without Velocity, nor its collider, and leaves both maps of
\* the spatial index as they were.
C39_PassLeavesStaticsAndIndex ==
    [][(resolved.name = "none" /\ resolved'.name = "systems")
       => /\ \A e \in HierEntity :
                velocity[e] = NoVelocity =>
                    /\ transform'[e] = transform[e]
                    /\ global_transform'[e] = global_transform[e]
                    /\ collider'[e] = collider[e]
                    /\ velocity'[e] = NoVelocity
          /\ cells' = cells
          /\ entities' = entities]_vars

\* a pass has pushed a mover that started inside a static collider out of it,
\* into cells it was not registered in, and the static is where it was
C39_Witness ==
    /\ resolved.name = "systems"
    /\ \E m \in Resolved : \E e \in HierEntity :
          /\ velocity[e] = NoVelocity
          /\ collides_rect(StartRect(m), StaticRect(e))
          /\ ~collides_rect(m.rect, StaticRect(e))
          /\ transform[e] = resolved.before[e]
          /\ Range(cell_coords_rect(m.rect)) # Range(entities[m.entity])

\* ======================================================================
\* Claims about the rotation arithmetic, checked under SpecRotation
\* ======================================================================
\* C34: the world rotation r written for a root and for a propagated child
\* satisfies 0 <= r < 360, whatever the local rotations are.
C34_RotationInRange ==
    op.name \in {"from_root", "from_local"} =>
        /\ 0 <= op.returned
        /\ op.returned < FullTurn

\* ======================================================================
\* Claims about skipped entities, checked under SpecTransform
\* ======================================================================
\* the children of c and their children
DescendantsOf(c) ==
    {d \in HierEntity :
        \/ child_of[d] = c
        \/ (child_of[d] # NoParent /\ child_of[child_of[d]] = c)}

\* c is listed among the children of its parent and has no transform pair
SkippedChild(c) ==
    /\ child_of[c] # NoParent
    /\ c \in Range(children[child_of[c]])
    /\ ~HasPair(c)

\* C40: when a child listed under a parent lacks the transform pair, the pass
\* visits none of its descendants: each one has after the pass the world
\* transform it had before it.
C40_SkippedSubtreeUntouched ==
    [][(pass'.name = "systems" /\ edits' = 0 /\ changed' = {})
       => \A c \in HierEntity :
             SkippedChild(c) =>
                 \A d \in DescendantsOf(c) :
                     /\ \A i \in DOMAIN pass'.writes : pass'.writes[i] # d
                     /\ global_transform'[d] = global_transform[d]]_vars

\* a pass has written a root, skipped its child that has no pair, and the
\* child of that child has the world transform of before, which is no longer
\* the one its chain of local transforms gives
C40_Witness ==
    /\ pass.name = "systems" /\ edits = 0
    /\ \E c \in HierEntity : \E d \in HierEntity :
          /\ SkippedChild(c)
          /\ child_of[c] \in Range(pass.writes)
          /\ child_of[d] = c /\ HasPair(d)
          /\ global_transform[d]
                # from_local(global_transform[child_of[c]], transform[d])
          /\ global_transform[d] # from_root(transform[d])
          /\ d \notin Range(pass.writes)

====
